---------------------------- MODULE Spec2Model ----------------------------
(***************************************************************************)
(* PetMent availability expansion and booking conflict engine.             *)
(*                                                                         *)
(* Instants are whole minutes counted from a Sunday 00:00 local time; the  *)
(* local zone is taken to be UTC with no daylight-saving shift, so a       *)
(* calendar day is MinutesPerDay minutes and Date.setDate(+n) adds n days. *)
(* An ISO string is a record [t, fmt]: fmt = "iso" is the form produced by *)
(* Date.toISOString(), fmt = "alt" is another spelling of the same instant *)
(* (for example without milliseconds) and fmt = "empty" is the empty       *)
(* string.  Strings are compared as records, instants by their t field.    *)
(***************************************************************************)
EXTENDS Integers, Sequences, FiniteSets, TLC

\* ------------------------------------------------------------------------
\* Calendar arithmetic (JavaScript Date)
\* ------------------------------------------------------------------------

MinutesPerDay == 1440

DaysPerWeek == 7

\* slotDurationMinutes default of GetAvailableSlotsUseCase.execute
DefaultSlotMinutes == 30

\* look-ahead of getNextAvailableSlots, in days
LookAheadDays == 30

\* number of alternatives asked for by book and reschedule
AlternativeCount == 3

Day(d) == d * MinutesPerDay

At(d, h, m) == Day(d) + h * 60 + m

\* Date.prototype.toISOString
toISOString(t) == [t |-> t, fmt |-> "iso"]

\* a second spelling of the same instant, accepted by new Date(string)
altISO(t) == [t |-> t, fmt |-> "alt"]

\* the empty string (falsy)
EmptyString == [t |-> 0, fmt |-> "empty"]

\* new Date(string).getTime()
DateParse(s) == s.t

\* Date.prototype.getDay
getDay(t) == (t \div MinutesPerDay) % DaysPerWeek

\* Date.prototype.setHours(h, m, 0, 0)
setHours(t, h, m) == (t \div MinutesPerDay) * MinutesPerDay + h * 60 + m

\* Date.prototype.setDate(getDate() + n)
addDays(t, n) == t + n * MinutesPerDay

\* dayStart / dayEnd of a request: setHours(0,0,0,0) and setHours(23,59,59,999)
dayStartOf(t) == setHours(t, 0, 0)

dayEndOf(t) == setHours(t, 23, 59)

\* ------------------------------------------------------------------------
\* Recurrence descriptors (rruleHelpers.ts, rrule library)
\* ------------------------------------------------------------------------

weekdays == << "SU", "MO", "TU", "WE", "TH", "FR", "SA" >>

NoRRule == [kind |-> "none", interval |-> 0, byday |-> ""]

\* a stored descriptor that RRule.fromString rejects
BadRRule == [kind |-> "bad", interval |-> 0, byday |-> ""]

\* the descriptor built with the weekday codes of a week that starts on Monday
createWeeklyRRuleFromMonday(weekday, interval) ==
    [kind |-> "weekly", interval |-> interval,
     byday |-> weekdays[((weekday + 1) % DaysPerWeek) + 1]]

createWeeklyRRule(weekday, interval) ==
    [kind |-> "weekly", interval |-> interval, byday |-> weekdays[weekday + 1]]

createBiWeeklyRRule(weekday) == createWeeklyRRule(weekday, 2)

\* BYDAY code -> Date.getDay() number, as RRule.fromString reads it
ByDayToWeekday(code) == (CHOOSE i \in 1..7 : weekdays[i] = code) - 1

\* index of the Monday-started week (WKST=MO) that contains instant t
WeekOf(t) == ((t \div MinutesPerDay) + 6) \div DaysPerWeek

\* RRule.fromString(s).between(fromDate, toDate, true): DTSTART defaults to
\* the instant of parsing, occurrences keep DTSTART's time of day, never
\* precede DTSTART, fall on BYDAY, and lie INTERVAL weeks apart counted from
\* DTSTART's week.
RECURSIVE RRuleScan(_, _, _, _)
RRuleScan(rr, cur, dtstart, toDate) ==
    IF cur > toDate THEN << >>
    ELSE IF /\ getDay(cur) = ByDayToWeekday(rr.byday)
            /\ (WeekOf(cur) - WeekOf(dtstart)) % rr.interval = 0
         THEN << cur >> \o RRuleScan(rr, addDays(cur, 1), dtstart, toDate)
         ELSE RRuleScan(rr, addDays(cur, 1), dtstart, toDate)

\* first instant >= lo that has the time of day of dtstart
FirstAtTimeOfDay(lo, dtstart) ==
    LET tod == dtstart % MinutesPerDay
        c   == setHours(lo, 0, 0) + tod
    IN  IF c >= lo THEN c ELSE addDays(c, 1)

\* between that takes every week, whatever the interval
RRuleBetweenEveryWeek(rr, fromDate, toDate, dtstart) ==
    LET lo == IF fromDate > dtstart THEN fromDate ELSE dtstart
    IN  RRuleScan([rr EXCEPT !.interval = 1], FirstAtTimeOfDay(lo, dtstart), dtstart, toDate)

RRuleBetween(rr, fromDate, toDate, dtstart) ==
    LET lo == IF fromDate > dtstart THEN fromDate ELSE dtstart
    IN  RRuleScan(rr, FirstAtTimeOfDay(lo, dtstart), dtstart, toDate)

\* the first loop left out: the expansion starts at fromDate whatever its weekday
FindFirstWeekdaySkipped(current, weekday, toDate) == current

\* first loop of the no-rrule branch: find the first occurrence of the weekday
RECURSIVE FindFirstWeekday(_, _, _)
FindFirstWeekday(current, weekday, toDate) ==
    IF getDay(current) # weekday /\ current <= toDate
    THEN FindFirstWeekday(addDays(current, 1), weekday, toDate)
    ELSE current

\* second loop of the no-rrule branch: weekly occurrences
RECURSIVE WeeklyOccurrences(_, _)
WeeklyOccurrences(current, toDate) ==
    IF current <= toDate
    THEN << current >> \o WeeklyOccurrences(addDays(current, DaysPerWeek), toDate)
    ELSE << >>

\* the plain weekly expansion with a date equal to toDate left out
expandPlainWeeklyOpenEnd(availability, fromDate, toDate) ==
    SelectSeq(WeeklyOccurrences(FindFirstWeekday(fromDate, availability.weekday, toDate),
                                toDate),
              LAMBDA d : d < toDate)

expandPlainWeekly(availability, fromDate, toDate) ==
    WeeklyOccurrences(FindFirstWeekday(fromDate, availability.weekday, toDate), toDate)

\* the expansion without the fallback of the catch
expandAvailabilityToDatesNoFallback(availability, fromDate, toDate, clock) ==
    IF availability.rrule.kind = "none"
    THEN expandPlainWeekly(availability, fromDate, toDate)
    ELSE IF availability.rrule.kind = "bad"
         THEN << >>
         ELSE RRuleBetween(availability.rrule, fromDate, toDate, clock)

\* expandAvailabilityToDates; clock is the value of new Date() inside RRule
expandAvailabilityToDates(availability, fromDate, toDate, clock) ==
    IF availability.rrule.kind = "none"
    THEN expandPlainWeekly(availability, fromDate, toDate)
    ELSE IF availability.rrule.kind = "bad"
         THEN expandPlainWeekly(availability, fromDate, toDate)
         ELSE RRuleBetween(availability.rrule, fromDate, toDate, clock)

\* ------------------------------------------------------------------------
\* Slot slicing
\* ------------------------------------------------------------------------

RECURSIVE SlotsFrom(_, _, _)
SlotsFrom(current, endDatetime, slotDurationMinutes) ==
    IF current < endDatetime
    THEN LET slotEnd == current + slotDurationMinutes
             rest    == SlotsFrom(slotEnd, endDatetime, slotDurationMinutes)
         IN  IF slotEnd <= endDatetime
             THEN << [start |-> current, end |-> slotEnd] >> \o rest
             ELSE rest
    ELSE << >>

generateSlotsForBlock(startDatetime, endDatetime, slotDurationMinutes) ==
    SlotsFrom(startDatetime, endDatetime, slotDurationMinutes)

\* timeString "HH:MM" is the pair <<HH, MM>>
combineDateAndTime(date, timeString) == setHours(date, timeString[1], timeString[2])


\* ------------------------------------------------------------------------
\* Sequence helpers (Array.prototype.filter / some / slice / sort)
\* ------------------------------------------------------------------------

RECURSIVE Concat(_)
Concat(seqs) == IF seqs = << >> THEN << >> ELSE Head(seqs) \o Concat(Tail(seqs))

Range(s) == { s[i] : i \in 1..Len(s) }

\* Array.prototype.slice(0, count)
Slice(s, count) == SubSeq(s, 1, IF Len(s) < count THEN Len(s) ELSE count)

\* stable insertion of x into a list sorted by start instant
RECURSIVE InsertByStart(_, _)
InsertByStart(x, sorted) ==
    IF sorted = << >> THEN << x >>
    ELSE IF DateParse(Head(sorted).startISO) <= DateParse(x.startISO)
         THEN << Head(sorted) >> \o InsertByStart(x, Tail(sorted))
         ELSE << x >> \o sorted

\* the list left in its accumulation order
SortByStartNone(s) == s

\* availableSlots.sort((a, b) => start(a) - start(b)), a stable sort
RECURSIVE SortByStart(_)
SortByStart(s) ==
    IF s = << >> THEN << >>
    ELSE InsertByStart(s[Len(s)], SortByStart(SubSeq(s, 1, Len(s) - 1)))

\* ------------------------------------------------------------------------
\* Repository queries (AppointmentRepositoryImpl)
\* ------------------------------------------------------------------------

NoDoctor == [id |-> "", weeklyAvailability |-> << >>]

\* a lookup that answers the first stored provider for an unknown id
getDoctorByIdOrFirst(docs, id) ==
    IF \E i \in 1..Len(docs) : docs[i].id = id
    THEN docs[CHOOSE i \in 1..Len(docs) : docs[i].id = id]
    ELSE docs[1]

\* getDoctorById: doctors.find(d => d.id === id) || null
getDoctorById(docs, id) ==
    IF \E i \in 1..Len(docs) : docs[i].id = id
    THEN docs[CHOOSE i \in 1..Len(docs) :
                 /\ docs[i].id = id
                 /\ \A j \in 1..(i - 1) : docs[j].id # id]
    ELSE NoDoctor

\* the range test of getAppointmentsByDoctorAndDateRange
InDateRange(appointment, start, end) ==
    LET appointmentStart == DateParse(appointment.startDateISO)
        appointmentEnd   == DateParse(appointment.endDateISO)
    IN  \/ (appointmentStart >= start /\ appointmentStart <= end)
        \/ (appointmentEnd >= start /\ appointmentEnd <= end)
        \/ (appointmentStart <= start /\ appointmentEnd >= end)

\* the range query without the provider test
getAppointmentsByDateRange(apts, doctorId, startDate, endDate) ==
    SelectSeq(apts, LAMBDA a : InDateRange(a, DateParse(startDate), DateParse(endDate)))

getAppointmentsByDoctorAndDateRange(apts, doctorId, startDate, endDate) ==
    SelectSeq(apts, LAMBDA a : /\ a.doctorId = doctorId
                               /\ InDateRange(a, DateParse(startDate), DateParse(endDate)))

\* ------------------------------------------------------------------------
\* GetAvailableSlotsUseCase
\* ------------------------------------------------------------------------

\* the overlap test with every comparison closed
HasTimeOverlapClosed(slotStart, slotEnd, appointmentStart, appointmentEnd) ==
    \/ (slotStart >= appointmentStart /\ slotStart <= appointmentEnd)
    \/ (slotEnd >= appointmentStart /\ slotEnd <= appointmentEnd)
    \/ (slotStart <= appointmentStart /\ slotEnd >= appointmentEnd)

\* the overlap test of filterBookedSlots
HasTimeOverlap(slotStart, slotEnd, appointmentStart, appointmentEnd) ==
    \/ (slotStart >= appointmentStart /\ slotStart < appointmentEnd)
    \/ (slotEnd > appointmentStart /\ slotEnd <= appointmentEnd)
    \/ (slotStart <= appointmentStart /\ slotEnd >= appointmentEnd)

\* the conflict test that also counts a slot ending at the appointment's start
SlotConflictsLeftClosed(slot, appointment) ==
    /\ appointment.status # "cancelled"
    /\ \/ HasTimeOverlap(DateParse(slot.startISO), DateParse(slot.endISO),
                         DateParse(appointment.startDateISO),
                         DateParse(appointment.endDateISO))
       \/ DateParse(slot.endISO) = DateParse(appointment.startDateISO)

SlotConflicts(slot, appointment) ==
    /\ appointment.status # "cancelled"
    /\ HasTimeOverlap(DateParse(slot.startISO), DateParse(slot.endISO),
                      DateParse(appointment.startDateISO),
                      DateParse(appointment.endDateISO))

\* filterBookedSlots without the conflict test
filterBookedSlotsKeepAll(allSlots, existingAppointments) == allSlots

filterBookedSlots(allSlots, existingAppointments) ==
    SelectSeq(allSlots, LAMBDA slot :
        ~ \E i \in 1..Len(existingAppointments) :
              SlotConflicts(slot, existingAppointments[i]))

\* the slots of one expanded date without the two past checks
SlotsOfDateKeepPast(doctor, availability, date, slotDurationMinutes, clock) ==
    LET startDateTime == combineDateAndTime(date, availability.startTime)
        endDateTime   == combineDateAndTime(date, availability.endTime)
        timeSlots     == generateSlotsForBlock(startDateTime, endDateTime,
                                               slotDurationMinutes)
    IN  [i \in 1..Len(timeSlots) |->
            [startISO |-> toISOString(timeSlots[i].start),
             endISO   |-> toISOString(timeSlots[i].end),
             doctorId |-> doctor.id]]

\* the slots of one expanded date of one availability pattern
SlotsOfDate(doctor, availability, date, slotDurationMinutes, clock) ==
    LET startDateTime == combineDateAndTime(date, availability.startTime)
        endDateTime   == combineDateAndTime(date, availability.endTime)
        timeSlots     == generateSlotsForBlock(startDateTime, endDateTime,
                                               slotDurationMinutes)
        future        == SelectSeq(timeSlots, LAMBDA slot : ~ (slot.start < clock))
    IN  IF endDateTime < clock THEN << >>
        ELSE [i \in 1..Len(future) |->
                 [startISO |-> toISOString(future[i].start),
                  endISO   |-> toISOString(future[i].end),
                  doctorId |-> doctor.id]]

SlotsOfAvailability(doctor, availability, startDate, endDate, slotDurationMinutes, clock) ==
    LET availableDates == expandAvailabilityToDates(availability, startDate, endDate, clock)
    IN  Concat([i \in 1..Len(availableDates) |->
                   SlotsOfDate(doctor, availability, availableDates[i],
                               slotDurationMinutes, clock)])

generateAllPossibleSlots(doctor, startDate, endDate, slotDurationMinutes, clock) ==
    Concat([k \in 1..Len(doctor.weeklyAvailability) |->
               SlotsOfAvailability(doctor, doctor.weeklyAvailability[k],
                                   startDate, endDate, slotDurationMinutes, clock)])

\* the part of execute that follows the two repository reads
AvailableSlots(doctor, existingAppointments, fromDate, toDate, slotDurationMinutes, clock) ==
    SortByStart(filterBookedSlots(
        generateAllPossibleSlots(doctor, DateParse(fromDate), DateParse(toDate),
                                 slotDurationMinutes, clock),
        existingAppointments))

\* GetAvailableSlotsUseCase.execute on a store snapshot (both reads at once)
listAvailableSlots(docs, apts, doctorId, fromDate, toDate, slotDurationMinutes, clock) ==
    AvailableSlots(getDoctorById(docs, doctorId),
                   getAppointmentsByDoctorAndDateRange(apts, doctorId, fromDate, toDate),
                   fromDate, toDate, slotDurationMinutes, clock)

\* the match made on the instants instead of on the strings
ExactMatchByInstant(availableSlots, startISO, endISO) ==
    \E i \in 1..Len(availableSlots) :
        /\ DateParse(availableSlots[i].startISO) = DateParse(startISO)
        /\ DateParse(availableSlots[i].endISO) = DateParse(endISO)

\* the match made on the end only
ExactMatchEndOnly(availableSlots, startISO, endISO) ==
    \E i \in 1..Len(availableSlots) : availableSlots[i].endISO = endISO

\* the match made on the start only
ExactMatchStartOnly(availableSlots, startISO, endISO) ==
    \E i \in 1..Len(availableSlots) : availableSlots[i].startISO = startISO

\* availableSlots.some(slot => slot.startISO === startISO && slot.endISO === endISO)
ExactMatch(availableSlots, startISO, endISO) ==
    \E i \in 1..Len(availableSlots) :
        availableSlots[i].startISO = startISO /\ availableSlots[i].endISO = endISO


\* ------------------------------------------------------------------------
\* Bounds and inputs
\* ------------------------------------------------------------------------

\* number of use-case calls started in one run, one at a time
MaxCalls == 3

\* number of use-case calls started in one run when calls may overlap
MaxConcCalls == 2

\* number of stored appointments beyond which book is not started
MaxAppointments == 2

Procs == {1, 2}

\* the instants at which the wall clock is observed: Tuesday 07:00 of the
\* first week, then Monday 09:10 and Monday 09:40 of the second week
Clock == << At(2, 7, 0), At(8, 9, 10), At(8, 9, 40) >>

\* Dr. Johnson: every Monday 09:00-10:00 and every Monday 09:15-09:45, no
\* descriptor (two patterns whose slots overlap each other).
\* Dr. Chen: every other Thursday 08:00-08:30 (createBiWeeklyRRule(4)).
SampleDoctors ==
    << [id |-> "d1",
        weeklyAvailability |->
            << [weekday |-> 1, startTime |-> <<9, 0>>, endTime |-> <<10, 0>>,
                rrule |-> NoRRule],
               [weekday |-> 1, startTime |-> <<9, 15>>, endTime |-> <<9, 45>>,
                rrule |-> NoRRule] >>],
       [id |-> "d2",
        weeklyAvailability |->
            << [weekday |-> 4, startTime |-> <<8, 0>>, endTime |-> <<8, 30>>,
                rrule |-> createBiWeeklyRRule(4)] >>] >>

\* Dr. Johnson as seeded: every Monday 09:00-12:00, no descriptor.
\* A provider with two patterns that start together: every Monday 09:00-09:30
\* and every Monday 09:00-10:00, no descriptor.
ExampleDoctors ==
    << [id |-> "d3",
        weeklyAvailability |->
            << [weekday |-> 1, startTime |-> <<9, 0>>, endTime |-> <<12, 0>>,
                rrule |-> NoRRule] >>],
       [id |-> "d4",
        weeklyAvailability |->
            << [weekday |-> 1, startTime |-> <<9, 0>>, endTime |-> <<9, 30>>,
                rrule |-> NoRRule],
               [weekday |-> 1, startTime |-> <<9, 0>>, endTime |-> <<10, 0>>,
                rrule |-> NoRRule] >>] >>

\* ------------------------------------------------------------------------
\* Records
\* ------------------------------------------------------------------------

NoNotes == << >>

NoAppointment ==
    [id |-> 0, doctorId |-> "", ownerName |-> "", petName |-> "",
     startDateISO |-> EmptyString, endDateISO |-> EmptyString,
     status |-> "none", notes |-> NoNotes,
     createdAt |-> EmptyString, updatedAt |-> EmptyString]

\* the sample appointment of seedInitialData: next Monday 09:00-09:30
SeedAppointment ==
    [id |-> 1, doctorId |-> "d1", ownerName |-> "John Smith", petName |-> "Buddy",
     startDateISO |-> toISOString(At(8, 9, 0)), endDateISO |-> toISOString(At(8, 9, 30)),
     status |-> "scheduled", notes |-> NoNotes,
     createdAt |-> toISOString(At(2, 7, 0)), updatedAt |-> toISOString(At(2, 7, 0))]

InitStores == { << >>, << SeedAppointment >> }

NoRequest ==
    [doctorId |-> "", ownerName |-> "", petName |-> "",
     startDateISO |-> EmptyString, endDateISO |-> EmptyString,
     appointmentId |-> 0, reason |-> ""]

BookRequest(doctorId, startISO, endISO) ==
    [NoRequest EXCEPT !.doctorId = doctorId, !.ownerName = "owner", !.petName = "pet",
                      !.startDateISO = startISO, !.endDateISO = endISO]

\* the time pairs offered to book and reschedule
SlotTimes ==
    { << toISOString(At(8, 9, 0)),  toISOString(At(8, 9, 30)) >>,   \* d1 slot
      << toISOString(At(8, 9, 30)), toISOString(At(8, 10, 0)) >>,   \* d1 slot
      << toISOString(At(8, 9, 15)), toISOString(At(8, 9, 45)) >>,   \* d1 slot
      << toISOString(At(8, 9, 5)),  toISOString(At(8, 9, 35)) >>,   \* not aligned
      << altISO(At(8, 9, 30)),      altISO(At(8, 10, 0)) >>,        \* other spelling
      << toISOString(At(8, 9, 30)), toISOString(At(8, 9, 30)) >>,   \* end = start
      << toISOString(At(18, 8, 0)), toISOString(At(18, 8, 30)) >>,  \* d2, week 3
      << toISOString(At(32, 8, 0)), toISOString(At(32, 8, 30)) >> } \* d2, week 5

BookRequests ==
    { BookRequest("d1", st[1], st[2]) : st \in SlotTimes }
        \cup { BookRequest("d2", toISOString(At(18, 8, 0)), toISOString(At(18, 8, 30))),
               BookRequest("d2", toISOString(At(32, 8, 0)), toISOString(At(32, 8, 30))),
               BookRequest("dX", toISOString(At(8, 9, 30)), toISOString(At(8, 10, 0))),
               BookRequest("", toISOString(At(8, 9, 30)), toISOString(At(8, 10, 0))),
               BookRequest("d1", EmptyString, toISOString(At(8, 10, 0))),
               BookRequest("d1", toISOString(At(8, 9, 30)), EmptyString) }

\* the query windows offered to listAvailableSlots (besides [now, now + 30 days])
ListWindows ==
    { << toISOString(At(8, 0, 0)),  toISOString(At(8, 23, 59)) >>,
      << toISOString(At(8, 9, 40)), toISOString(At(8, 23, 0)) >>,
      << toISOString(At(2, 0, 0)),  toISOString(At(32, 23, 59)) >> }

Reasons == { "", "Cancelled by owner" }

\* the error texts of the use cases
ErrMissing == "Missing required appointment data"
ErrEndBeforeStart == "End time must be after start time"
ErrPast == "Cannot book appointments in the past"
ErrBooked == "Slot already booked"
ErrNewBooked == "New slot already booked"
ErrDoctorNotFound == "Doctor with ID not found"
ErrStorage == "AsyncStorage error"
ErrAppointmentNotFound == "Appointment not found"
ErrAppointmentIdNotFound == "Appointment with ID not found"
ErrAlreadyCancelled == "Appointment is already cancelled"
ErrCancelPast == "Cannot cancel past appointments"

\* the error taxonomy the texts stand for
ErrorKind(error) ==
    CASE error \in {ErrMissing, ErrEndBeforeStart} -> "InvalidRequest"
      [] error \in {ErrPast, ErrCancelPast} -> "InThePast"
      [] error \in {ErrBooked, ErrNewBooked} -> "SlotUnavailable"
      [] error \in {ErrDoctorNotFound, ErrAppointmentNotFound,
                    ErrAppointmentIdNotFound} -> "NotFound"
      [] error = ErrAlreadyCancelled -> "AlreadyCancelled"
      [] error = ErrStorage -> "StorageFailure"
      [] OTHER -> "None"

NoResult ==
    [success |-> FALSE, error |-> "", appointment |-> NoAppointment,
     hasSlots |-> FALSE, slots |-> << >>]

Failure(error) == [NoResult EXCEPT !.error = error]

FailureWithSlots(error, nextSlots) ==
    [NoResult EXCEPT !.error = error, !.hasSlots = TRUE, !.slots = nextSlots]

\* a success result whose flag was left unset
SuccessNoFlag(appointment) == [NoResult EXCEPT !.appointment = appointment]

Success(appointment) == [NoResult EXCEPT !.success = TRUE, !.appointment = appointment]

SlotList(slots) == [NoResult EXCEPT !.success = TRUE, !.hasSlots = TRUE, !.slots = slots]

\* nextSlots.map(slot => ({ startISO, endISO }))
StripDoctor(slots) ==
    [i \in 1..Len(slots) |-> [startISO |-> slots[i].startISO, endISO |-> slots[i].endISO]]

IdleProc ==
    [pc |-> "idle", op |-> "none", stage |-> "none", req |-> NoRequest,
     doctorId |-> "", fromDate |-> EmptyString, toDate |-> EmptyString,
     doctor |-> NoDoctor, existing |-> NoAppointment, apt |-> NoAppointment,
     snap |-> << >>, result |-> NoResult,
     pre |-> << >>, preDoctors |-> << >>,
     startedAt |-> 0, clock |-> 0, computedAt |-> 0,
     batch |-> "none", queue |-> << >>, results |-> << >>,
     batchPre |-> << >>, batchAt |-> 0, batchReqs |-> << >>, hist |-> << >>,
     faulted |-> FALSE, allSlots |-> << >>,
     args |-> << >>, current |-> 0, out |-> << >>]


\* ------------------------------------------------------------------------
\* State
\* ------------------------------------------------------------------------

VARIABLES
    doctors,        \* AsyncStorage item @PetSlot:doctors
    appointments,   \* AsyncStorage item @PetSlot:appointments
    tick,           \* index into Clock of the current wall-clock instant
    nextId,         \* the next identifier generateUUID returns
    calls,          \* number of calls started so far
    call,           \* per caller: the use-case call in progress or last finished
    fault           \* AsyncStorage.getItem / setItem currently reject

vars == << doctors, appointments, tick, nextId, calls, call, fault >>

now == Clock[tick]

\* LocalStorageDataSource.getDoctors: a failed read is caught and answered []
getDoctors == IF fault THEN << >> ELSE doctors

\* LocalStorageDataSource.getAppointments: a failed read is caught and answered []
getAppointments == IF fault THEN << >> ELSE appointments

\* the call record after a storage step: whether one of its steps failed
AfterStorage(c) == [c EXCEPT !.faulted = @ \/ fault]

\* generateUUID: identifiers are taken to be fresh
generateUUID == nextId

Finished(p) == call[p].pc \in {"idle", "done"}

\* no call is in progress
Quiet == \A q \in Procs : Finished(q)

\* getAppointmentById: appointments.find(a => a.id === id) || null
getAppointmentById(apts, id) ==
    IF \E i \in 1..Len(apts) : apts[i].id = id
    THEN apts[CHOOSE i \in 1..Len(apts) :
                 /\ apts[i].id = id
                 /\ \A j \in 1..(i - 1) : apts[j].id # id]
    ELSE NoAppointment

\* appointments.findIndex(a => a.id === id), 0 standing for -1
findIndex(apts, id) ==
    IF \E i \in 1..Len(apts) : apts[i].id = id
    THEN CHOOSE i \in 1..Len(apts) :
             /\ apts[i].id = id
             /\ \A j \in 1..(i - 1) : apts[j].id # id
    ELSE 0

Init ==
    /\ doctors = SampleDoctors
    /\ appointments \in InitStores
    /\ tick = 1
    /\ nextId = 2
    /\ calls = 0
    /\ call = [p \in Procs |-> IdleProc]
    /\ fault = FALSE

\* time passes between two steps
Tick ==
    /\ tick < Len(Clock)
    /\ tick' = tick + 1
    /\ UNCHANGED << fault, doctors, appointments, nextId, calls, call >>

\* ------------------------------------------------------------------------
\* BookAppointmentUseCase.execute, up to its first storage read
\* ------------------------------------------------------------------------

Begin(p, op, req) ==
    [IdleProc EXCEPT !.op = op, !.req = req,
                     !.pre = appointments, !.preDoctors = doctors,
                     !.startedAt = now, !.clock = now]

\* validateSlotAvailability up to the call of GetAvailableSlotsUseCase.execute
EnterValidate(c, doctorId, startISO) ==
    [c EXCEPT !.pc = "get_doctor", !.stage = "validate", !.doctorId = doctorId,
              !.fromDate = toISOString(dayStartOf(DateParse(startISO))),
              !.toDate = toISOString(dayEndOf(DateParse(startISO)))]

\* getNextAvailableSlots up to the call of GetAvailableSlotsUseCase.execute
EnterAlternatives(c, doctorId) ==
    [c EXCEPT !.pc = "get_doctor", !.stage = "alternatives", !.doctorId = doctorId,
              !.fromDate = toISOString(now),
              !.toDate = toISOString(addDays(now, LookAheadDays)),
              !.clock = now]

\* the same checks with the past check moved in front of the end check
ValidateRequestPastFirst(appointmentData, clock) ==
    IF \/ appointmentData.doctorId = ""
       \/ appointmentData.startDateISO = EmptyString
       \/ appointmentData.endDateISO = EmptyString
    THEN ErrMissing
    ELSE IF DateParse(appointmentData.startDateISO) < clock
    THEN ErrPast
    ELSE IF DateParse(appointmentData.endDateISO) <= DateParse(appointmentData.startDateISO)
    THEN ErrEndBeforeStart
    ELSE ""

\* the input checks of execute, in their order; "" when all pass
ValidateRequest(appointmentData, clock) ==
    IF \/ appointmentData.doctorId = ""
       \/ appointmentData.startDateISO = EmptyString
       \/ appointmentData.endDateISO = EmptyString
    THEN ErrMissing
    ELSE IF DateParse(appointmentData.endDateISO) <= DateParse(appointmentData.startDateISO)
    THEN ErrEndBeforeStart
    ELSE IF DateParse(appointmentData.startDateISO) < clock
    THEN ErrPast
    ELSE ""

StartBook(p, req) ==
    /\ Finished(p)
    /\ Len(appointments) <= MaxAppointments
    /\ calls' = calls + 1
    /\ LET c == Begin(p, "book", req)
           error == ValidateRequest(req, now)
       IN  call' = [call EXCEPT ![p] =
             IF error # ""
             THEN [c EXCEPT !.pc = "done", !.result = Failure(error)]
             ELSE EnterValidate(c, req.doctorId, req.startDateISO)]
    /\ UNCHANGED << fault, doctors, appointments, tick, nextId >>

\* ------------------------------------------------------------------------
\* GetAvailableSlotsUseCase.execute, called directly (listAvailableSlots)
\* ------------------------------------------------------------------------

\* a list call that empties the stored appointments as it starts
StartListClearing(p, doctorId, fromDate, toDate) ==
    /\ Finished(p)
    /\ calls' = calls + 1
    /\ appointments' = << >>
    /\ call' = [call EXCEPT ![p] =
           [Begin(p, "list", NoRequest) EXCEPT
               !.pc = "get_doctor", !.stage = "list", !.doctorId = doctorId,
               !.fromDate = fromDate, !.toDate = toDate]]
    /\ UNCHANGED << fault, doctors, tick, nextId >>

StartList(p, doctorId, fromDate, toDate) ==
    /\ Finished(p)
    /\ calls' = calls + 1
    /\ call' = [call EXCEPT ![p] =
           [Begin(p, "list", NoRequest) EXCEPT
               !.pc = "get_doctor", !.stage = "list", !.doctorId = doctorId,
               !.fromDate = fromDate, !.toDate = toDate]]
    /\ UNCHANGED << fault, doctors, appointments, tick, nextId >>

\* executeMultiple that returns at the first failure
NextInBatchStopAtFailure(c, store) ==
    [c EXCEPT !.results = Append(c.results, c.result),
              !.hist = Append(c.hist, [pre |-> c.pre, startedAt |-> c.startedAt,
                                       clock |-> c.clock]),
              !.pc = IF c.queue = << >> \/ ~ c.result.success THEN "done" ELSE "next_book"]

\* executeMultiple: results.push(result), then execute for the next
\* request or identifier, or return the results; store is the collection as
\* stored
NextInBatch(c, store) ==
    LET results == Append(c.results, c.result)
        hist    == Append(c.hist, [pre |-> c.pre, startedAt |-> c.startedAt,
                                   clock |-> c.clock])
    IN  IF c.queue = << >>
        THEN [c EXCEPT !.results = results, !.hist = hist]
        ELSE IF c.batch = "book"
        THEN [c EXCEPT !.results = results, !.hist = hist, !.pc = "next_book"]
        ELSE [c EXCEPT !.results = results, !.hist = hist, !.queue = Tail(c.queue),
                       !.pc = "find_apt", !.req.appointmentId = Head(c.queue),
                       !.result = NoResult, !.existing = NoAppointment,
                       !.apt = NoAppointment, !.snap = << >>,
                       !.pre = store, !.startedAt = now, !.clock = now]

\* the return of execute: to its caller, or to the loop of executeMultiple
Continue(c, store) ==
    IF c.pc = "done" /\ c.batch # "none" THEN NextInBatch(c, store) ELSE c

\* execute: await getDoctorById(doctorId), and what each caller does when it
\* throws (validateSlotAvailability swallows the error and answers false,
\* the catch of book / reschedule turns it into a failure result)
ExecuteGetDoctor(p) ==
    /\ call[p].pc = "get_doctor"
    /\ LET c == call[p]
           doctor == getDoctorById(getDoctors, c.doctorId)
       IN  call' = [call EXCEPT ![p] = AfterStorage(
             IF doctor # NoDoctor
             THEN [c EXCEPT !.pc = "get_apts", !.doctor = doctor]
             ELSE IF c.stage = "validate"
             THEN EnterAlternatives(c, c.doctorId)
             ELSE Continue([c EXCEPT !.pc = "done", !.result = Failure(ErrDoctorNotFound)],
                           appointments))]
    /\ UNCHANGED << fault, doctors, appointments, tick, nextId, calls >>


\* the appointment constructed with status confirmed
NewAppointmentConfirmed(req, id, clock) ==
    [id |-> id, doctorId |-> req.doctorId, ownerName |-> req.ownerName,
     petName |-> req.petName, startDateISO |-> req.startDateISO,
     endDateISO |-> req.endDateISO, status |-> "confirmed", notes |-> NoNotes,
     createdAt |-> toISOString(clock), updatedAt |-> toISOString(clock)]

\* the appointment book constructs once the slot is found available
NewAppointment(req, id, clock) ==
    [id |-> id, doctorId |-> req.doctorId, ownerName |-> req.ownerName,
     petName |-> req.petName, startDateISO |-> req.startDateISO,
     endDateISO |-> req.endDateISO, status |-> "scheduled", notes |-> NoNotes,
     createdAt |-> toISOString(clock), updatedAt |-> toISOString(clock)]

\* reschedule that also puts the appointment back to scheduled
RescheduledReset(existingAppointment, newStartISO, newEndISO, clock) ==
    [existingAppointment EXCEPT !.startDateISO = newStartISO,
                                !.endDateISO = newEndISO,
                                !.status = "scheduled",
                                !.updatedAt = toISOString(clock)]

\* the appointment reschedule constructs once the new slot is found available
Rescheduled(existingAppointment, newStartISO, newEndISO, clock) ==
    [existingAppointment EXCEPT !.startDateISO = newStartISO,
                                !.endDateISO = newEndISO,
                                !.updatedAt = toISOString(clock)]

\* reschedule that takes the appointment's own current times as available
AfterValidateOwnSlot(c, isSlotAvailable) ==
    IF /\ ~ isSlotAvailable
       /\ ~ (/\ c.op = "reschedule"
             /\ c.req.startDateISO = c.existing.startDateISO
             /\ c.req.endDateISO = c.existing.endDateISO)
    THEN EnterAlternatives(c, c.doctorId)
    ELSE IF c.op = "book"
    THEN [c EXCEPT !.pc = "create_read", !.clock = now,
                   !.apt = NewAppointment(c.req, generateUUID, now)]
    ELSE [c EXCEPT !.pc = "update_read", !.clock = now,
                   !.apt = Rescheduled(c.existing, c.req.startDateISO,
                                       c.req.endDateISO, now)]

\* what book / reschedule do with the answer of validateSlotAvailability
AfterValidate(c, isSlotAvailable) ==
    IF ~ isSlotAvailable
    THEN EnterAlternatives(c, c.doctorId)
    ELSE IF c.op = "book"
    THEN [c EXCEPT !.pc = "create_read", !.clock = now,
                   !.apt = NewAppointment(c.req, generateUUID, now)]
    ELSE [c EXCEPT !.pc = "update_read", !.clock = now,
                   !.apt = Rescheduled(c.existing, c.req.startDateISO,
                                       c.req.endDateISO, now)]

\* execute: await getAppointmentsByDoctorAndDateRange, then generate, filter
\* and sort; then the continuation of the caller
ExecuteGetAppointments(p) ==
    /\ call[p].pc = "get_apts"
    /\ LET c == call[p]
           existingAppointments ==
               getAppointmentsByDoctorAndDateRange(getAppointments, c.doctorId,
                                                   c.fromDate, c.toDate)
           availableSlots ==
               AvailableSlots(c.doctor, existingAppointments, c.fromDate, c.toDate,
                              DefaultSlotMinutes, now)
           isSlotAvailable ==
               ExactMatch(availableSlots, c.req.startDateISO, c.req.endDateISO)
       IN  /\ call' = [call EXCEPT ![p] = AfterStorage(
                 CASE c.stage = "list" ->
                        [c EXCEPT !.pc = "done", !.clock = now, !.computedAt = now,
                                  !.result = SlotList(availableSlots)]
                   [] c.stage = "validate" ->
                        AfterValidate([c EXCEPT !.computedAt = now], isSlotAvailable)
                   [] OTHER ->
                        Continue([c EXCEPT !.pc = "done", !.computedAt = now, !.result =
                            FailureWithSlots(
                                IF c.op = "book" THEN ErrBooked ELSE ErrNewBooked,
                                StripDoctor(Slice(availableSlots, AlternativeCount)))],
                                 appointments))]
           /\ nextId' = IF c.stage = "validate" /\ isSlotAvailable /\ c.op = "book"
                        THEN nextId + 1 ELSE nextId
    /\ UNCHANGED << fault, doctors, appointments, tick, calls >>

\* ------------------------------------------------------------------------
\* AppointmentRepositoryImpl.createAppointment / updateAppointment
\* ------------------------------------------------------------------------

\* LocalStorageDataSource.saveAppointments: the collection stored afterwards;
\* a failed write stores nothing and is rethrown
saveAppointments(apts) == IF fault THEN appointments ELSE apts

\* the result of the use case whose last step was saveAppointments: the catch
\* turns a rethrown error into a failure with its message
Saved(appointment) == IF fault THEN Failure(ErrStorage) ELSE Success(appointment)

\* createAppointment without the push
createAppointmentNoPush(apts, appointment) == apts

\* appointments.push(appointment)
createAppointment(apts, appointment) == Append(apts, appointment)

\* createAppointment: await dataSource.getAppointments(), push
CreateRead(p) ==
    /\ call[p].pc = "create_read"
    /\ call' = [call EXCEPT ![p].pc = "create_write",
                            ![p].snap = createAppointment(getAppointments, call[p].apt),
                            ![p].faulted = @ \/ fault]
    /\ UNCHANGED << fault, doctors, appointments, tick, nextId, calls >>

\* createAppointment: await dataSource.saveAppointments(appointments); book returns
CreateWrite(p) ==
    /\ call[p].pc = "create_write"
    /\ appointments' = saveAppointments(call[p].snap)
    /\ call' = [call EXCEPT ![p] = AfterStorage(
           Continue([call[p] EXCEPT !.pc = "done", !.result = Saved(call[p].apt)],
                    saveAppointments(call[p].snap)))]
    /\ UNCHANGED << fault, doctors, tick, nextId, calls >>

\* ------------------------------------------------------------------------
\* BookAppointmentUseCase.executeMultiple
\* ------------------------------------------------------------------------

\* executeMultiple up to the first execute
StartBookBatch(p, appointmentsData) ==
    /\ Finished(p)
    /\ calls' = calls + 1
    /\ call' = [call EXCEPT ![p] =
           [Begin(p, "book", NoRequest) EXCEPT
               !.pc = IF appointmentsData = << >> THEN "done" ELSE "next_book",
               !.batch = "book", !.queue = appointmentsData,
               !.batchReqs = appointmentsData,
               !.batchPre = appointments, !.batchAt = now]]
    /\ UNCHANGED << fault, doctors, appointments, tick, nextId >>

\* for (const appointmentData of appointmentsData): execute(appointmentData)
\* up to its first storage read
NextBook(p) ==
    /\ call[p].pc = "next_book"
    /\ LET req   == Head(call[p].queue)
           c     == [call[p] EXCEPT !.req = req, !.queue = Tail(call[p].queue),
                                    !.result = NoResult, !.existing = NoAppointment,
                                    !.apt = NoAppointment, !.snap = << >>,
                                    !.pre = appointments, !.preDoctors = doctors,
                                    !.startedAt = now, !.clock = now]
           error == ValidateRequest(req, now)
       IN  call' = [call EXCEPT ![p] =
             IF error # ""
             THEN Continue([c EXCEPT !.pc = "done", !.result = Failure(error)],
                           appointments)
             ELSE EnterValidate(c, req.doctorId, req.startDateISO)]
    /\ UNCHANGED << fault, doctors, appointments, tick, nextId, calls >>

\* updateAppointment: await dataSource.getAppointments(), findIndex, replace
UpdateRead(p) ==
    /\ call[p].pc = "update_read"
    /\ LET c == call[p]
           index == findIndex(getAppointments, c.apt.id)
       IN  call' = [call EXCEPT ![p] = AfterStorage(
             IF index = 0
             THEN Continue([c EXCEPT !.pc = "done",
                                     !.result = Failure(ErrAppointmentIdNotFound)],
                           appointments)
             ELSE [c EXCEPT !.pc = "update_write",
                            !.snap = [getAppointments EXCEPT ![index] = c.apt]])]
    /\ UNCHANGED << fault, doctors, appointments, tick, nextId, calls >>

\* updateAppointment: await dataSource.saveAppointments(appointments); caller returns
UpdateWrite(p) ==
    /\ call[p].pc = "update_write"
    /\ appointments' = saveAppointments(call[p].snap)
    /\ call' = [call EXCEPT ![p] = AfterStorage(
           Continue([call[p] EXCEPT !.pc = "done", !.result = Saved(call[p].apt)],
                    saveAppointments(call[p].snap)))]
    /\ UNCHANGED << fault, doctors, tick, nextId, calls >>

\* ------------------------------------------------------------------------
\* BookAppointmentUseCase.reschedule and CancelAppointmentUseCase.execute
\* ------------------------------------------------------------------------

RescheduleRequest(appointmentId, newStartISO, newEndISO) ==
    [NoRequest EXCEPT !.appointmentId = appointmentId,
                      !.startDateISO = newStartISO, !.endDateISO = newEndISO]

CancelRequest(appointmentId, reason) ==
    [NoRequest EXCEPT !.appointmentId = appointmentId, !.reason = reason]

StartReschedule(p, appointmentId, newStartISO, newEndISO) ==
    /\ Finished(p)
    /\ calls' = calls + 1
    /\ call' = [call EXCEPT ![p] =
           [Begin(p, "reschedule", RescheduleRequest(appointmentId, newStartISO, newEndISO))
               EXCEPT !.pc = "find_apt"]]
    /\ UNCHANGED << fault, doctors, appointments, tick, nextId >>

StartCancel(p, appointmentId, reason) ==
    /\ Finished(p)
    /\ calls' = calls + 1
    /\ call' = [call EXCEPT ![p] =
           [Begin(p, "cancel", CancelRequest(appointmentId, reason))
               EXCEPT !.pc = "find_apt"]]
    /\ UNCHANGED << fault, doctors, appointments, tick, nextId >>

\* texts are kept as sequences of pieces; " " and "\n" are the white space
Whitespace == { " ", "\n" }

\* String.prototype.trim
trim(text) ==
    LET inked == { i \in 1..Len(text) : text[i] \notin Whitespace }
    IN  IF inked = { } THEN << >>
        ELSE SubSeq(text, CHOOSE i \in inked : \A j \in inked : i <= j,
                          CHOOSE i \in inked : \A j \in inked : i >= j)

\* the notes with the white space around them kept
CancelNotesUntrimmed(notes, reason) ==
    IF reason # ""
    THEN notes \o << "\n", "Cancellation reason:", " ", reason >>
    ELSE notes

\* notes: reason ? `${notes || ''}\nCancellation reason: ${reason}`.trim() : notes
\* (absent notes and empty notes are both the empty text)
CancelNotes(notes, reason) ==
    IF reason # ""
    THEN trim(notes \o << "\n", "Cancellation reason:", " ", reason >>)
    ELSE notes

Cancelled(existingAppointment, reason, clock) ==
    [existingAppointment EXCEPT !.status = "cancelled",
                                !.notes = CancelNotes(existingAppointment.notes, reason),
                                !.updatedAt = toISOString(clock)]

\* the guards with the past check in front of the cancelled check
AfterFindCancelPastFirst(c, existingAppointment) ==
    IF DateParse(existingAppointment.startDateISO) < now
    THEN [c EXCEPT !.pc = "done", !.computedAt = now, !.result = Failure(ErrCancelPast)]
    ELSE IF existingAppointment.status = "cancelled"
    THEN [c EXCEPT !.pc = "done", !.computedAt = now,
                   !.result = Failure(ErrAlreadyCancelled)]
    ELSE [c EXCEPT !.pc = "update_read", !.clock = now, !.computedAt = now,
                   !.existing = existingAppointment,
                   !.apt = Cancelled(existingAppointment, c.req.reason, now)]

\* cancel after its read: the guards and the construction of the cancelled copy
AfterFindCancel(c, existingAppointment) ==
    IF existingAppointment.status = "cancelled"
    THEN [c EXCEPT !.pc = "done", !.computedAt = now,
                   !.result = Failure(ErrAlreadyCancelled)]
    ELSE IF DateParse(existingAppointment.startDateISO) < now
    THEN [c EXCEPT !.pc = "done", !.computedAt = now, !.result = Failure(ErrCancelPast)]
    ELSE [c EXCEPT !.pc = "update_read", !.clock = now, !.computedAt = now,
                   !.existing = existingAppointment,
                   !.apt = Cancelled(existingAppointment, c.req.reason, now)]

\* await getAppointmentById(appointmentId) of reschedule and cancel
FindAppointment(p) ==
    /\ call[p].pc = "find_apt"
    /\ LET c == call[p]
           existingAppointment == getAppointmentById(getAppointments, c.req.appointmentId)
       IN  call' = [call EXCEPT ![p] = AfterStorage(
             IF existingAppointment = NoAppointment
             THEN Continue([c EXCEPT !.pc = "done",
                                     !.result = Failure(ErrAppointmentNotFound)],
                           appointments)
             ELSE IF c.op = "cancel"
             THEN Continue(AfterFindCancel(c, existingAppointment), appointments)
             ELSE EnterValidate([c EXCEPT !.existing = existingAppointment],
                                existingAppointment.doctorId, c.req.startDateISO))]
    /\ UNCHANGED << fault, doctors, appointments, tick, nextId, calls >>


\* ------------------------------------------------------------------------
\* CancelAppointmentUseCase.cancelDoctorAppointmentsForDate
\* ------------------------------------------------------------------------

\* cancelDoctorAppointmentsForDate up to its read
StartCancelDay(p, doctorId, date, reason) ==
    /\ Finished(p)
    /\ calls' = calls + 1
    /\ call' = [call EXCEPT ![p] =
           [Begin(p, "cancel", CancelRequest(0, reason)) EXCEPT
               !.pc = "day_read", !.batch = "day", !.doctorId = doctorId,
               !.fromDate = toISOString(dayStartOf(DateParse(date))),
               !.toDate = toISOString(dayEndOf(DateParse(date))),
               !.batchPre = appointments, !.batchAt = now]]
    /\ UNCHANGED << fault, doctors, appointments, tick, nextId >>

\* the identifiers of all the appointments, the cancelled ones too
AllIds(apts) == [i \in 1..Len(apts) |-> apts[i].id]

\* appointments.filter(apt => apt.status !== 'cancelled').map(apt => apt.id)
ActiveIds(apts) ==
    LET activateAppointments == SelectSeq(apts, LAMBDA apt : apt.status # "cancelled")
    IN  [i \in 1..Len(activateAppointments) |-> activateAppointments[i].id]

\* await getAppointmentsByDoctorAndDateRange(doctorId, dayStart, dayEnd), then
\* executeMultiple(appointmentIds, reason) up to its first execute
DayRead(p) ==
    /\ call[p].pc = "day_read"
    /\ LET c == call[p]
           appointmentIds ==
               ActiveIds(getAppointmentsByDoctorAndDateRange(getAppointments, c.doctorId,
                                                             c.fromDate, c.toDate))
       IN  call' = [call EXCEPT ![p] = AfterStorage(
             IF appointmentIds = << >>
             THEN [c EXCEPT !.pc = "done"]
             ELSE [c EXCEPT !.pc = "find_apt", !.queue = Tail(appointmentIds),
                            !.req.appointmentId = Head(appointmentIds),
                            !.pre = appointments, !.startedAt = now, !.clock = now])]
    /\ UNCHANGED << fault, doctors, appointments, tick, nextId, calls >>

\* ------------------------------------------------------------------------
\* Specifications
\* ------------------------------------------------------------------------

\* identifiers offered to reschedule and cancel: the stored ones and a free one
IdInputs == { appointments[i].id : i \in 1..Len(appointments) } \cup { nextId }

RescheduleTimes ==
    { << toISOString(At(8, 9, 0)),  toISOString(At(8, 9, 30)) >>,
      << toISOString(At(8, 9, 15)), toISOString(At(8, 9, 45)) >>,
      << toISOString(At(8, 9, 30)), toISOString(At(8, 10, 0)) >>,
      << toISOString(At(15, 9, 0)), toISOString(At(15, 9, 30)) >>,
      << toISOString(At(8, 9, 30)), toISOString(At(8, 9, 30)) >> }

HorizonWindow == << toISOString(now), toISOString(addDays(now, LookAheadDays)) >>

DoctorInputs == { "d1", "d2", "dX" }

\* the steps of the calls in progress
GetDoctorStep == \E p \in Procs : ExecuteGetDoctor(p)
GetAppointmentsStep == \E p \in Procs : ExecuteGetAppointments(p)
CreateReadStep == \E p \in Procs : CreateRead(p)
CreateWriteStep == \E p \in Procs : CreateWrite(p)
UpdateReadStep == \E p \in Procs : UpdateRead(p)
UpdateWriteStep == \E p \in Procs : UpdateWrite(p)
FindAppointmentStep == \E p \in Procs : FindAppointment(p)

Steps ==
    \/ GetDoctorStep
    \/ GetAppointmentsStep
    \/ CreateReadStep
    \/ CreateWriteStep
    \/ UpdateReadStep
    \/ UpdateWriteStep
    \/ FindAppointmentStep

\* one call at a time: a call starts only when no call is in progress
BookSeq == Quiet /\ calls < MaxCalls /\ \E req \in BookRequests : StartBook(1, req)

RescheduleSeq ==
    Quiet /\ calls < MaxCalls /\ \E id \in IdInputs, st \in RescheduleTimes : StartReschedule(1, id, st[1], st[2])

CancelSeq ==
    Quiet /\ calls < MaxCalls /\ \E id \in IdInputs, reason \in Reasons : StartCancel(1, id, reason)

ListSeq ==
    Quiet /\ calls < MaxCalls /\ \E d \in DoctorInputs, w \in ListWindows \cup { HorizonWindow } :
                 StartList(1, d, w[1], w[2])

Next ==
    \/ BookSeq
    \/ RescheduleSeq
    \/ CancelSeq
    \/ ListSeq
    \/ Steps
    \/ Tick

Spec == Init /\ [][Next]_vars

\* calls may overlap: a call starts whenever its caller is free, and the steps
\* of the calls in progress interleave at their storage reads and writes
ConcBookRequests ==
    { BookRequest("d1", toISOString(At(8, 9, 30)), toISOString(At(8, 10, 0))),
      BookRequest("d1", toISOString(At(8, 9, 15)), toISOString(At(8, 9, 45))) }

ConcRescheduleTimes == { << toISOString(At(15, 9, 0)), toISOString(At(15, 9, 30)) >> }

BookConc == calls < MaxConcCalls /\ \E p \in Procs, req \in ConcBookRequests : StartBook(p, req)

RescheduleConc ==
    calls < MaxConcCalls /\ \E p \in Procs, id \in IdInputs, st \in ConcRescheduleTimes :
                                StartReschedule(p, id, st[1], st[2])

CancelConc ==
    calls < MaxConcCalls /\ \E p \in Procs, id \in IdInputs : StartCancel(p, id, "Cancelled by owner")

ListConc ==
    calls < MaxConcCalls /\ \E p \in Procs : StartList(p, "d1", HorizonWindow[1], HorizonWindow[2])

NextConc ==
    \/ BookConc
    \/ RescheduleConc
    \/ CancelConc
    \/ ListConc
    \/ Steps
    \/ Tick

SpecConc == Init /\ [][NextConc]_vars

\* listAvailableSlots alone, over stores and provider lists that differ from
\* run to run: the calls run one at a time
ExampleAppointment ==
    [id |-> 1, doctorId |-> "d3", ownerName |-> "John Smith", petName |-> "Buddy",
     startDateISO |-> toISOString(At(8, 10, 0)), endDateISO |-> toISOString(At(8, 10, 30)),
     status |-> "confirmed", notes |-> NoNotes,
     createdAt |-> toISOString(At(2, 7, 0)), updatedAt |-> toISOString(At(2, 7, 0))]

ListStores == { << >>, << SeedAppointment >>, << ExampleAppointment >> }

\* getNextMondayAt(time), clock being the value of new Date()
getNextMondayAt(clock, time) ==
    LET untilMonday == (1 - getDay(clock) + DaysPerWeek) % DaysPerWeek
        daysUntilMonday == IF untilMonday = 0 THEN DaysPerWeek ELSE untilMonday
    IN  setHours(addDays(clock, daysUntilMonday), time[1], time[2])

\* from next Monday 00:00 to the Monday two weeks later 00:00, and from next
\* Monday 00:00 to the last minute before that Monday
ExampleWindows ==
    LET nextMonday == getNextMondayAt(now, <<0, 0>>)
    IN  { << toISOString(nextMonday), toISOString(addDays(nextMonday, 2 * DaysPerWeek)) >>,
          << toISOString(nextMonday), toISOString(addDays(nextMonday, 2 * DaysPerWeek) - 1) >> }

InitList ==
    /\ doctors \in { SampleDoctors, ExampleDoctors }
    /\ appointments \in ListStores
    /\ tick = 1
    /\ nextId = 2
    /\ calls = 0
    /\ call = [p \in Procs |-> IdleProc]
    /\ fault = FALSE

StoredDoctorIds == { doctors[i].id : i \in 1..Len(doctors) }

ListAny ==
    /\ Quiet
    /\ calls < MaxCalls
    /\ \E d \in StoredDoctorIds \cup { "dX" },
          w \in ListWindows \cup ExampleWindows \cup { HorizonWindow } :
           StartList(1, d, w[1], w[2])

\* the second caller repeats the arguments of the first caller's last call
ListAgain ==
    /\ Quiet
    /\ calls < MaxCalls
    /\ call[1].op = "list"
    /\ StartList(2, call[1].doctorId, call[1].fromDate, call[1].toDate)

NextList ==
    \/ ListAny
    \/ ListAgain
    \/ GetDoctorStep
    \/ GetAppointmentsStep
    \/ Tick

SpecList == InitList /\ [][NextList]_vars

\* cancel and cancel-by-day alone, one call at a time, over stores that hold
\* appointments of every status
MaxCancelCalls == 2

Stored(id, doctorId, startISO, endISO, status, notes) ==
    [id |-> id, doctorId |-> doctorId, ownerName |-> "John Smith", petName |-> "Buddy",
     startDateISO |-> startISO, endDateISO |-> endISO, status |-> status, notes |-> notes,
     createdAt |-> toISOString(At(1, 12, 0)), updatedAt |-> toISOString(At(1, 12, 0))]

\* one Monday of the 09:00-12:00 provider with three appointments that are
\* not cancelled and one that is, an appointment of another provider that
\* day, and an appointment of the first provider a week later
DayStore ==
    << Stored(1, "d3", toISOString(At(8, 9, 0)), toISOString(At(8, 9, 30)),
              "scheduled", NoNotes),
       Stored(2, "d3", toISOString(At(8, 9, 30)), toISOString(At(8, 10, 0)),
              "confirmed", << " ", "Limping" >>),
       Stored(3, "d3", toISOString(At(8, 10, 0)), toISOString(At(8, 10, 30)),
              "completed", << "Vaccination" >>),
       Stored(4, "d3", toISOString(At(8, 10, 30)), toISOString(At(8, 11, 0)),
              "cancelled", NoNotes),
       Stored(5, "d4", toISOString(At(8, 9, 0)), toISOString(At(8, 9, 30)),
              "scheduled", NoNotes),
       Stored(6, "d3", toISOString(At(15, 9, 0)), toISOString(At(15, 9, 30)),
              "scheduled", << "Vaccination" >>) >>

\* an appointment that ends at the midnight at which the Monday begins, and a
\* cancelled appointment of that Monday
EdgeStore ==
    << Stored(7, "d3", toISOString(At(7, 23, 30)), toISOString(At(8, 0, 0)),
              "scheduled", NoNotes),
       Stored(8, "d3", toISOString(At(8, 9, 0)), toISOString(At(8, 9, 30)),
              "cancelled", << "Vaccination" >>) >>

CancelStores == { DayStore, EdgeStore }

CancelReasons == Reasons \cup { " " }

CancelDates == { toISOString(At(8, 9, 0)), toISOString(At(15, 0, 0)) }

InitCancel ==
    /\ doctors = ExampleDoctors
    /\ appointments \in CancelStores
    /\ tick = 1
    /\ nextId = 9
    /\ calls = 0
    /\ call = [p \in Procs |-> IdleProc]
    /\ fault = FALSE

CancelOne ==
    /\ Quiet
    /\ calls < MaxCancelCalls
    /\ \E id \in IdInputs, reason \in CancelReasons : StartCancel(1, id, reason)

CancelDay ==
    /\ Quiet
    /\ calls < MaxCancelCalls
    /\ \E d \in StoredDoctorIds, date \in CancelDates, reason \in CancelReasons :
           StartCancelDay(1, d, date, reason)

DayReadStep == \E p \in Procs : DayRead(p)

NextCancel ==
    \/ CancelOne
    \/ CancelDay
    \/ DayReadStep
    \/ FindAppointmentStep
    \/ UpdateReadStep
    \/ UpdateWriteStep
    \/ Tick

SpecCancel == InitCancel /\ [][NextCancel]_vars
\* batch booking: one executeMultiple call on a list of requests
MaxBatch == 3

BatchRequests ==
    { BookRequest("d1", toISOString(At(8, 9, 0)),  toISOString(At(8, 9, 30))),
      BookRequest("d1", toISOString(At(8, 9, 30)), toISOString(At(8, 10, 0))),
      BookRequest("d1", toISOString(At(8, 9, 30)), toISOString(At(8, 9, 30))),
      BookRequest("dX", toISOString(At(8, 9, 30)), toISOString(At(8, 10, 0))) }

BatchLists == UNION { [1..n -> BatchRequests] : n \in 0..MaxBatch }

BookBatch == Quiet /\ calls = 0 /\ \E reqs \in BatchLists : StartBookBatch(1, reqs)

NextBookStep == \E p \in Procs : NextBook(p)

NextBatch ==
    \/ BookBatch
    \/ NextBookStep
    \/ GetDoctorStep
    \/ GetAppointmentsStep
    \/ CreateReadStep
    \/ CreateWriteStep
    \/ Tick

SpecBatch == Init /\ [][NextBatch]_vars
\* storage failures: AsyncStorage starts and stops rejecting at any moment,
\* calls run one at a time
MaxFaultCalls == 2

Fault ==
    /\ fault' = ~ fault
    /\ UNCHANGED << doctors, appointments, tick, nextId, calls, call >>

BookFault ==
    Quiet /\ calls < MaxFaultCalls /\ \E req \in ConcBookRequests : StartBook(1, req)

RescheduleFault ==
    Quiet /\ calls < MaxFaultCalls /\ \E id \in IdInputs, st \in ConcRescheduleTimes :
                                          StartReschedule(1, id, st[1], st[2])

CancelFault ==
    Quiet /\ calls < MaxFaultCalls /\ \E id \in IdInputs : StartCancel(1, id, "Cancelled by owner")

NextFault ==
    \/ BookFault
    \/ RescheduleFault
    \/ CancelFault
    \/ Steps
    \/ Fault
    \/ Tick

SpecFault == Init /\ [][NextFault]_vars
\* the conflict filter on its own: filterBookedSlots applied to lists of one or
\* two slots against a store of one appointment, all instants within a few
\* minutes of a Monday 09:00
MaxInstant == 4

\* the pairs << start, end >> with start < end
ProperIntervals ==
    UNION { { << At(8, 9, s), At(8, 9, e) >> : e \in (s + 1)..MaxInstant } :
                s \in 0..(MaxInstant - 1) }

OverlapStores ==
    { << Stored(1, "d1", toISOString(iv[1]), toISOString(iv[2]), status, NoNotes) >> :
          iv \in ProperIntervals, status \in { "scheduled", "cancelled" } }

TimeSlot(iv) ==
    [startISO |-> toISOString(iv[1]), endISO |-> toISOString(iv[2]), doctorId |-> "d1"]

SlotLists ==
    { << TimeSlot(iv) >> : iv \in ProperIntervals }
        \cup { << TimeSlot(iv), TimeSlot(jv) >> : iv \in ProperIntervals, jv \in ProperIntervals }

InitOverlap ==
    /\ doctors = SampleDoctors
    /\ appointments \in OverlapStores
    /\ tick = 1
    /\ nextId = 2
    /\ calls = 0
    /\ call = [p \in Procs |-> IdleProc]
    /\ fault = FALSE

\* filterBookedSlots(allSlots, existingAppointments) on the stored appointments
FilterSlots(p, allSlots) ==
    /\ call' = [call EXCEPT ![p] =
           [Begin(p, "filter", NoRequest) EXCEPT
               !.pc = "done", !.allSlots = allSlots,
               !.result = SlotList(filterBookedSlots(allSlots, appointments))]]
    /\ UNCHANGED << fault, doctors, appointments, tick, nextId, calls >>

NextOverlap == \E allSlots \in SlotLists : FilterSlots(1, allSlots)

SpecOverlap == InitOverlap /\ [][NextOverlap]_vars
\* the slot slicer on its own, one iteration of its while loop per step:
\* blocks and durations of a few minutes from a Monday 09:00
MaxBlock == 6

BlockInstants == { At(8, 9, k) : k \in 0..MaxBlock }

\* generateSlotsForBlock up to its loop: slots = [], current = startDatetime
SliceStart(p, startDatetime, endDatetime, slotDurationMinutes) ==
    /\ Finished(p)
    /\ call' = [call EXCEPT ![p] =
           [Begin(p, "slice", NoRequest) EXCEPT
               !.pc = "slicing", !.current = startDatetime,
               !.args = << startDatetime, endDatetime, slotDurationMinutes >>]]
    /\ UNCHANGED << fault, doctors, appointments, tick, nextId, calls >>

\* the iteration that emits the remainder as a short slot
SliceStepKeepRemainder(p) ==
    /\ call[p].pc = "slicing"
    /\ LET c       == call[p]
           slotEnd == c.current + c.args[3]
       IN  call' = [call EXCEPT ![p] =
             IF c.current < c.args[2]
             THEN [c EXCEPT !.out = Append(@, [start |-> c.current,
                                               end |-> IF slotEnd <= c.args[2]
                                                       THEN slotEnd ELSE c.args[2]]),
                            !.current = slotEnd]
             ELSE [c EXCEPT !.pc = "done"]]
    /\ UNCHANGED << fault, doctors, appointments, tick, nextId, calls >>

\* the iteration that advances current only when it has emitted a slot
SliceStepStuck(p) ==
    /\ call[p].pc = "slicing"
    /\ LET c       == call[p]
           slotEnd == c.current + c.args[3]
       IN  call' = [call EXCEPT ![p] =
             IF c.current < c.args[2]
             THEN IF slotEnd <= c.args[2]
                  THEN [c EXCEPT !.out = Append(@, [start |-> c.current, end |-> slotEnd]),
                                 !.current = slotEnd]
                  ELSE c
             ELSE [c EXCEPT !.pc = "done"]]
    /\ UNCHANGED << fault, doctors, appointments, tick, nextId, calls >>

\* one test of while (current < endDatetime) and, when it holds, one iteration
SliceStep(p) ==
    /\ call[p].pc = "slicing"
    /\ LET c       == call[p]
           slotEnd == c.current + c.args[3]
       IN  call' = [call EXCEPT ![p] =
             IF c.current < c.args[2]
             THEN [c EXCEPT !.out = IF slotEnd <= c.args[2]
                                    THEN Append(@, [start |-> c.current, end |-> slotEnd])
                                    ELSE @,
                            !.current = slotEnd]
             ELSE [c EXCEPT !.pc = "done"]]
    /\ UNCHANGED << fault, doctors, appointments, tick, nextId, calls >>

SliceBlock ==
    \E startDatetime \in BlockInstants, endDatetime \in BlockInstants, d \in 1..MaxBlock :
        SliceStart(1, startDatetime, endDatetime, d)

SliceLoop == SliceStep(1)

NextSlice ==
    \/ SliceBlock
    \/ SliceLoop

SpecSlice == Init /\ [][NextSlice]_vars

\* the loop is not suspended for ever: it contains no await
SpecSliceFair == SpecSlice /\ WF_vars(SliceLoop)
\* the recurrence expander on its own, and a provider whose stored descriptor
\* does not parse: windows between days that are multiples of eight (day 8 is
\* a Monday, day 32 a Thursday)
MaxWindowSteps == 4

WindowInstants == { At(8 * k, 0, 0) : k \in 0..MaxWindowSteps }

\* rules for Monday and Thursday: without descriptor, with a weekly and with
\* a bi-weekly one
ExpandRules ==
    { [weekday |-> w, startTime |-> <<9, 0>>, endTime |-> <<10, 0>>, rrule |-> NoRRule] :
          w \in { 1, 4 } }
        \cup { [weekday |-> 1, startTime |-> <<9, 0>>, endTime |-> <<10, 0>>,
                rrule |-> createWeeklyRRule(1, 1)] }
        \cup { [weekday |-> w, startTime |-> <<9, 0>>, endTime |-> <<10, 0>>,
                rrule |-> createBiWeeklyRRule(w)] : w \in { 1, 4 } }

\* provider d5: Monday 09:00-10:00 with a descriptor that does not parse
BrokenDoctors ==
    << [id |-> "d5",
        weeklyAvailability |->
            << [weekday |-> 1, startTime |-> <<9, 0>>, endTime |-> <<10, 0>>,
                rrule |-> BadRRule] >>] >>

InitBroken ==
    /\ doctors = BrokenDoctors
    /\ appointments = << >>
    /\ tick = 1
    /\ nextId = 2
    /\ calls = 0
    /\ call = [p \in Procs |-> IdleProc]
    /\ fault = FALSE

\* expandAvailabilityToDates(availability, fromDate, toDate)
ExpandDates(p, availability, fromDate, toDate) ==
    /\ Finished(p)
    /\ call' = [call EXCEPT ![p] =
           [IdleProc EXCEPT
               !.op = "expand", !.clock = now,
               !.pc = "done", !.args = << availability, fromDate, toDate >>,
               !.out = expandAvailabilityToDates(availability, fromDate, toDate, now)]]
    /\ UNCHANGED << fault, doctors, appointments, tick, nextId, calls >>

ExpandAny ==
    \E availability \in ExpandRules, fromDate \in WindowInstants, toDate \in WindowInstants :
        ExpandDates(1, availability, fromDate, toDate)

\* the same rule expanded once more, over the widest window, now or later
ExpandAgain ==
    /\ call[1].op = "expand"
    /\ ExpandDates(2, call[1].args[1], At(0, 0, 0), At(8 * MaxWindowSteps, 0, 0))

ListBroken ==
    Quiet /\ calls < MaxCalls /\ StartList(1, "d5", HorizonWindow[1], HorizonWindow[2])

BookBroken ==
    /\ Quiet /\ calls < MaxCalls
    /\ StartBook(1, BookRequest("d5", toISOString(At(8, 9, 30)), toISOString(At(8, 10, 0))))

\* the rule of the stored provider expanded directly
ExpandBroken ==
    /\ Quiet
    /\ \E fromDate \in WindowInstants, toDate \in WindowInstants :
           ExpandDates(1, doctors[1].weeklyAvailability[1], fromDate, toDate)

NextExpand ==
    \/ ExpandAny
    \/ ExpandAgain
    \/ Tick

SpecExpand == InitBroken /\ [][NextExpand]_vars

NextBroken ==
    \/ ExpandBroken
    \/ ListBroken
    \/ BookBroken
    \/ GetDoctorStep
    \/ GetAppointmentsStep
    \/ CreateReadStep
    \/ CreateWriteStep
    \/ Tick

SpecBroken == InitBroken /\ [][NextBroken]_vars
\* the schedule screen: the availability of the selected provider is replaced
\* by what the forms say; up to MaxForms forms are filled in
MaxForms == 2

\* "HH:MM" strings compared with <, as pairs
TimeBefore(a, b) == a[1] < b[1] \/ (a[1] = b[1] /\ a[2] < b[2])

\* forms for Sunday and Saturday, a block and one that ends before it starts,
\* without recurrence, weekly and bi-weekly
ScheduleForms ==
    { [weekday |-> w, startTime |-> t[1], endTime |-> t[2],
       useRRule |-> u[1], rruleType |-> u[2]] :
          w \in { 0, 6 },
          t \in { << <<9, 0>>, <<10, 0>> >>, << <<10, 0>>, <<9, 0>> >> },
          u \in { << FALSE, "weekly" >>, << TRUE, "weekly" >>, << TRUE, "biweekly" >> } }

FormLists == UNION { [1..n -> ScheduleForms] : n \in 0..MaxForms }

\* validateForms: every form ends after it starts, no two forms of one weekday
\* overlap
validateForms(availabilityForms) ==
    /\ \A i \in 1..Len(availabilityForms) :
          TimeBefore(availabilityForms[i].startTime, availabilityForms[i].endTime)
    /\ \A i, j \in 1..Len(availabilityForms) :
          (i < j /\ availabilityForms[i].weekday = availabilityForms[j].weekday)
              => ~ (/\ TimeBefore(availabilityForms[i].startTime, availabilityForms[j].endTime)
                    /\ TimeBefore(availabilityForms[j].startTime, availabilityForms[i].endTime))

\* availabilityForms.map(form => ({ weekday, startTime, endTime, rrule }))
newAvailability(availabilityForms) ==
    [i \in 1..Len(availabilityForms) |->
        LET form == availabilityForms[i]
        IN  [weekday |-> form.weekday, startTime |-> form.startTime,
             endTime |-> form.endTime,
             rrule |-> IF form.useRRule
                       THEN IF form.rruleType = "biweekly"
                            THEN createBiWeeklyRRule(form.weekday)
                            ELSE createWeeklyRRule(form.weekday, 1)
                       ELSE NoRRule]]

\* saveSchedule for the stored provider doctorId: updateDoctor replaces the
\* provider by its copy with the new availability
saveSchedule(doctorId, availabilityForms) ==
    /\ Quiet
    /\ getDoctorById(doctors, doctorId) # NoDoctor
    /\ availabilityForms # << >>
    /\ validateForms(availabilityForms)
    /\ doctors' = [i \in 1..Len(doctors) |->
                      IF doctors[i].id = doctorId
                      THEN [doctors[i] EXCEPT
                               !.weeklyAvailability = newAvailability(availabilityForms)]
                      ELSE doctors[i]]
    /\ UNCHANGED << fault, appointments, tick, nextId, calls, call >>

SaveAny == \E availabilityForms \in FormLists : saveSchedule("d2", availabilityForms)

\* a stored rule expanded over the widest window
ExpandStored ==
    \E i \in 1..Len(doctors) : \E j \in 1..Len(doctors[i].weeklyAvailability) :
        ExpandDates(1, doctors[i].weeklyAvailability[j],
                    At(0, 0, 0), At(8 * MaxWindowSteps, 0, 0))

NextSchedule ==
    \/ SaveAny
    \/ ExpandStored
    \/ Tick

SpecSchedule == Init /\ [][NextSchedule]_vars
\* the client lists candidates with a slot duration of its choice and then
\* books, or moves an appointment to, one of the candidates it was shown
SlotDurations == { 15, 30, 60 }

\* the candidates of the stored providers for the Monday of the second week
ListedCandidates ==
    UNION { Range(listAvailableSlots(doctors, appointments, d,
                                     toISOString(At(8, 0, 0)), toISOString(At(8, 23, 59)),
                                     slotDurationMinutes, now)) :
                d \in StoredDoctorIds, slotDurationMinutes \in SlotDurations }

BookListed ==
    /\ Quiet
    /\ calls < MaxCalls
    /\ \E slot \in ListedCandidates :
           StartBook(1, BookRequest(slot.doctorId, slot.startISO, slot.endISO))

RescheduleListed ==
    /\ Quiet
    /\ calls < MaxCalls
    /\ \E id \in IdInputs, slot \in ListedCandidates :
           StartReschedule(1, id, slot.startISO, slot.endISO)

NextDuration ==
    \/ BookListed
    \/ RescheduleListed
    \/ Steps
    \/ Tick

SpecDuration == Init /\ [][NextDuration]_vars
\* two providers who work at the same hours (Monday from 09:00): calls for
\* either of them, one at a time
InitProviders ==
    /\ doctors = ExampleDoctors
    /\ appointments \in { << >>, << ExampleAppointment >> }
    /\ tick = 1
    /\ nextId = 2
    /\ calls = 0
    /\ call = [p \in Procs |-> IdleProc]
    /\ fault = FALSE

ProviderTimes ==
    { << toISOString(At(8, 9, 0)),  toISOString(At(8, 9, 30)) >>,
      << toISOString(At(8, 9, 30)), toISOString(At(8, 10, 0)) >> }

ProviderWindow == << toISOString(At(8, 0, 0)), toISOString(At(8, 23, 59)) >>

BookProvider ==
    /\ Quiet
    /\ calls < MaxCalls
    /\ \E d \in StoredDoctorIds, st \in ProviderTimes :
           StartBook(1, BookRequest(d, st[1], st[2]))

RescheduleProvider ==
    /\ Quiet
    /\ calls < MaxCalls
    /\ \E id \in IdInputs, st \in ProviderTimes : StartReschedule(1, id, st[1], st[2])

CancelProvider ==
    /\ Quiet
    /\ calls < MaxCalls
    /\ \E id \in IdInputs : StartCancel(1, id, "")

ListProvider ==
    /\ Quiet
    /\ calls < MaxCalls
    /\ \E d \in StoredDoctorIds : StartList(1, d, ProviderWindow[1], ProviderWindow[2])

NextProviders ==
    \/ BookProvider
    \/ RescheduleProvider
    \/ CancelProvider
    \/ ListProvider
    \/ Steps
    \/ Tick

SpecProviders == InitProviders /\ [][NextProviders]_vars

















\* ------------------------------------------------------------------------
\* Properties
\* ------------------------------------------------------------------------

Active(a) == a.status # "cancelled"

\* the half-open intervals [start, end) of two appointments intersect
Overlap(a, b) ==
    /\ DateParse(a.startDateISO) < DateParse(b.endDateISO)
    /\ DateParse(b.startDateISO) < DateParse(a.endDateISO)

SameSlot(a, b) ==
    /\ a.doctorId = b.doctorId
    /\ DateParse(a.startDateISO) = DateParse(b.startDateISO)
    /\ DateParse(a.endDateISO) = DateParse(b.endDateISO)

Ids(apts) == { apts[i].id : i \in 1..Len(apts) }

BookDone(p) == call[p].op = "book" /\ call[p].pc = "done"

\* two finished book calls for the same provider and times that ran
\* concurrently: neither began after the other's appointment was stored
ConcurrentSameSlot(p, q) ==
    /\ p # q
    /\ BookDone(p) /\ BookDone(q)
    /\ call[p].req.doctorId = call[q].req.doctorId
    /\ call[p].req.startDateISO = call[q].req.startDateISO
    /\ call[p].req.endDateISO = call[q].req.endDateISO
    /\ call[p].apt.id \notin Ids(call[q].pre)
    /\ call[q].apt.id \notin Ids(call[p].pre)

\* C1: when the calls run one at a time, starting from a store without
\* overlapping non-cancelled appointments of one provider, no reachable store
\* holds two non-cancelled appointments of the same provider whose [start,end)
\* intervals overlap.
C1_NoOverlappingAppointments ==
    \A i, j \in 1..Len(appointments) :
        (/\ i < j
         /\ appointments[i].doctorId = appointments[j].doctorId
         /\ Active(appointments[i]) /\ Active(appointments[j]))
            => ~ Overlap(appointments[i], appointments[j])

\* a reschedule has just succeeded in a store that holds two non-cancelled
\* appointments of one provider
C1_Witness ==
    /\ call[1].op = "reschedule" /\ call[1].pc = "done" /\ call[1].result.success
    /\ \E i, j \in 1..Len(appointments) :
          /\ i < j
          /\ appointments[i].doctorId = appointments[j].doctorId
          /\ Active(appointments[i]) /\ Active(appointments[j])

\* C2: for every interleaving of two concurrent book calls for the same
\* provider and the same start/end, at most one returns success, and the store
\* never holds two non-cancelled appointments for that provider and slot.
C2_AtomicBooking ==
    /\ \A p, q \in Procs :
          ConcurrentSameSlot(p, q) => ~ (call[p].result.success /\ call[q].result.success)
    /\ \A i, j \in 1..Len(appointments) :
          (i < j /\ Active(appointments[i]) /\ Active(appointments[j]))
              => ~ SameSlot(appointments[i], appointments[j])

\* C3: nothing spans the availability re-check and the write of book: a call
\* that has passed the exact-match check stores its appointment and returns
\* success whatever the store holds by then, so two concurrent calls for one
\* slot can both succeed and leave two scheduled appointments for it.
C3_NoLockBetweenCheckAndWrite ==
    [][\A p \in Procs :
          (call[p].op = "book" /\ call[p].pc = "create_write" /\ call'[p].pc = "done")
              => /\ call'[p].result.success
                 /\ call'[p].result.appointment = call[p].apt
                 /\ \E i \in 1..Len(appointments') : appointments'[i] = call[p].apt]_vars

\* both concurrent calls for one slot returned success and both appointments,
\* scheduled, are in the store
C3_Witness ==
    \E p, q \in Procs :
        /\ ConcurrentSameSlot(p, q)
        /\ call[p].result.success /\ call[q].result.success
        /\ \E i, j \in 1..Len(appointments) :
              /\ appointments[i] = call[p].apt
              /\ appointments[j] = call[q].apt
              /\ appointments[i].status = "scheduled"
              /\ appointments[j].status = "scheduled"
              /\ SameSlot(appointments[i], appointments[j])

\* the provider is in the stored collection
DoctorStored(docs, doctorId) == \E i \in 1..Len(docs) : docs[i].id = doctorId

\* the instants of Clock not later than t
ClockUpTo(t) == { Clock[k] : k \in { k \in 1..Len(Clock) : Clock[k] <= t } }

\* the windows a caller may have listed at instant t
WindowsAt(t) ==
    ListWindows \cup { << toISOString(t), toISOString(addDays(t, LookAheadDays)) >> }

\* the request of call c is a slot that listAvailableSlots returned, with
\* the default duration, for some window at some instant up to the start of
\* the call, on the store the call started from
WasListed(c) ==
    \E t \in ClockUpTo(c.startedAt) : \E w \in WindowsAt(t) :
        \E slot \in Range(listAvailableSlots(c.preDoctors, c.pre, c.req.doctorId,
                                             w[1], w[2], DefaultSlotMinutes, t)) :
            /\ slot.startISO = c.req.startDateISO
            /\ slot.endISO = c.req.endDateISO

\* C4: a slot returned by listAvailableSlots (default duration), booked with
\* exactly its start and end, with no write in between and before its start
\* has passed, is booked successfully with status scheduled.
C4_ListedSlotIsBookable ==
    \A p \in Procs :
        (/\ BookDone(p)
         /\ WasListed(call[p])
         /\ DateParse(call[p].req.startDateISO) >= now)
            => /\ call[p].result.success
               /\ call[p].result.appointment.status = "scheduled"
               /\ \E i \in 1..Len(appointments) :
                     appointments[i] = call[p].result.appointment

\* the request passes the field, end > start and not-in-the-past checks
PassesInputChecks(c) ==
    /\ c.req.doctorId # ""
    /\ c.req.startDateISO # EmptyString
    /\ c.req.endDateISO # EmptyString
    /\ DateParse(c.req.endDateISO) > DateParse(c.req.startDateISO)
    /\ DateParse(c.req.startDateISO) >= c.startedAt

\* the candidates of the requested day at the instant the call re-checked
DayCandidates(c) ==
    listAvailableSlots(c.preDoctors, c.pre, c.req.doctorId,
                       toISOString(dayStartOf(DateParse(c.req.startDateISO))),
                       toISOString(dayEndOf(DateParse(c.req.startDateISO))),
                       DefaultSlotMinutes, c.clock)

HasExactCandidate(c) ==
    \E slot \in Range(DayCandidates(c)) :
        slot.startISO = c.req.startDateISO /\ slot.endISO = c.req.endDateISO

\* C5: a book request for a stored provider that passes the input checks
\* but whose start and end are not exactly those of a candidate generated for
\* the requested day fails with SlotUnavailable, also when it overlaps no
\* existing appointment.
C5_InexactRequestIsUnavailable ==
    \A p \in Procs :
        (/\ BookDone(p)
         /\ PassesInputChecks(call[p])
         /\ DoctorStored(call[p].preDoctors, call[p].req.doctorId)
         /\ ~ HasExactCandidate(call[p]))
            => /\ ~ call[p].result.success
               /\ ErrorKind(call[p].result.error) = "SlotUnavailable"

\* a request that starts five minutes off the slot grid and overlaps no
\* stored appointment was refused as unavailable
C5_Witness ==
    /\ BookDone(1)
    /\ PassesInputChecks(call[1])
    /\ ErrorKind(call[1].result.error) = "SlotUnavailable"
    /\ call[1].req.startDateISO = toISOString(At(8, 9, 5))
    /\ \A i \in 1..Len(appointments) :
          ~ Overlap(appointments[i],
                    [startDateISO |-> call[1].req.startDateISO,
                     endDateISO |-> call[1].req.endDateISO])

MissingField(c) ==
    \/ c.req.doctorId = ""
    \/ c.req.startDateISO = EmptyString
    \/ c.req.endDateISO = EmptyString

\* the first three checks of book, in order, decide the outcome of call c
FirstThreeChecks(c) ==
    IF MissingField(c)
    THEN ErrorKind(c.result.error) = "InvalidRequest"
    ELSE IF DateParse(c.req.endDateISO) <= DateParse(c.req.startDateISO)
    THEN ErrorKind(c.result.error) = "InvalidRequest"
    ELSE IF DateParse(c.req.startDateISO) < c.startedAt
    THEN ErrorKind(c.result.error) = "InThePast" /\ ~ c.result.hasSlots
    ELSE TRUE

\* C6 as stated: book reports the first failing check in the order missing
\* field (InvalidRequest), end <= start (InvalidRequest), start < now
\* (InThePast, without alternatives), no exact-match candidate
\* (SlotUnavailable).
C6_CheckOrderAsStated ==
    \A p \in Procs :
        BookDone(p) =>
            /\ FirstThreeChecks(call[p])
            /\ (PassesInputChecks(call[p]) /\ ~ HasExactCandidate(call[p]))
                   => ErrorKind(call[p].result.error) = "SlotUnavailable"

\* C6 amended: the same order, the fourth check giving SlotUnavailable for a
\* provider that is stored and NotFound, without alternatives, for a provider
\* identifier that is not stored.
C6_CheckOrder ==
    \A p \in Procs :
        BookDone(p) =>
            /\ FirstThreeChecks(call[p])
            /\ (PassesInputChecks(call[p]) /\ ~ HasExactCandidate(call[p]))
                   => IF DoctorStored(call[p].preDoctors, call[p].req.doctorId)
                      THEN ErrorKind(call[p].result.error) = "SlotUnavailable"
                      ELSE /\ ErrorKind(call[p].result.error) = "NotFound"
                           /\ ~ call[p].result.hasSlots

\* a request for a slot that lies in the past and is also taken by a stored
\* non-cancelled appointment was refused as InThePast, without alternatives
C6_Witness ==
    /\ BookDone(1)
    /\ PassesInputChecks([call[1] EXCEPT !.startedAt = 0])
    /\ DateParse(call[1].req.startDateISO) < call[1].startedAt
    /\ ErrorKind(call[1].result.error) = "InThePast"
    /\ ~ call[1].result.hasSlots
    /\ \E i \in 1..Len(appointments) :
          /\ Active(appointments[i])
          /\ appointments[i].doctorId = call[1].req.doctorId
          /\ appointments[i].startDateISO = call[1].req.startDateISO
          /\ appointments[i].endDateISO = call[1].req.endDateISO

\* C7: when book returns a failure, the stored appointments and the stored
\* providers are exactly what they were before the call.
C7_FailedBookLeavesStore ==
    \A p \in Procs :
        (BookDone(p) /\ ~ call[p].result.success)
            => /\ appointments = call[p].pre
               /\ doctors = call[p].preDoctors

\* a book was refused as unavailable on a store that holds an appointment
C7_Witness ==
    /\ BookDone(1)
    /\ ErrorKind(call[1].result.error) = "SlotUnavailable"
    /\ Len(appointments) >= 1

\* C8: when book succeeds, the store is the previous store plus one new
\* appointment with a new identifier, status scheduled, the request's
\* provider, owner, subject, start and end, and creation and update instants
\* equal to the instant of its construction; the earlier appointments are
\* unchanged and the returned appointment is the stored one.
C8_SuccessfulBookAppendsOne ==
    \A p \in Procs :
        (BookDone(p) /\ call[p].result.success) =>
            LET a == call[p].result.appointment
                r == call[p].req
            IN  /\ appointments = Append(call[p].pre, a)
                /\ a.id \notin Ids(call[p].pre)
                /\ a.status = "scheduled"
                /\ a.doctorId = r.doctorId
                /\ a.ownerName = r.ownerName
                /\ a.petName = r.petName
                /\ a.startDateISO = r.startDateISO
                /\ a.endDateISO = r.endDateISO
                /\ a.createdAt = toISOString(call[p].clock)
                /\ a.updatedAt = toISOString(call[p].clock)
                /\ call[p].startedAt <= call[p].clock
                /\ call[p].clock <= now

\* a book succeeded on a store that already held an appointment
C8_Witness ==
    /\ BookDone(1)
    /\ call[1].result.success
    /\ Len(call[1].pre) >= 1

\* the result of call c carries alternatives
SlotUnavailableDone(c) ==
    /\ c.pc = "done"
    /\ c.op \in {"book", "reschedule"}
    /\ ErrorKind(c.result.error) = "SlotUnavailable"

\* slot s conflicts, under the predicate of filterBookedSlots, with a stored
\* non-cancelled appointment of the provider
ConflictsWithStore(s, doctorId) ==
    \E i \in 1..Len(appointments) :
        /\ appointments[i].doctorId = doctorId
        /\ Active(appointments[i])
        /\ HasTimeOverlap(DateParse(s.startISO), DateParse(s.endISO),
                          DateParse(appointments[i].startDateISO),
                          DateParse(appointments[i].endDateISO))

\* C9: a SlotUnavailable result of book or reschedule carries at most 3
\* alternatives, the first min(3, n) slots of the provider's listAvailableSlots
\* over [now, now + 30 days] in ascending order, each starting at or after now
\* and free of conflict with every non-cancelled appointment of the provider.
C9_Alternatives ==
    \A p \in Procs :
        SlotUnavailableDone(call[p]) =>
            LET c    == call[p]
                alts == c.result.slots
                list == listAvailableSlots(doctors, appointments, c.doctorId,
                                           toISOString(c.clock),
                                           toISOString(addDays(c.clock, LookAheadDays)),
                                           DefaultSlotMinutes, c.computedAt)
                n    == IF Len(list) < 3 THEN Len(list) ELSE 3
            IN  /\ c.result.hasSlots
                /\ Len(alts) = n
                /\ \A i \in 1..n : /\ alts[i].startISO = list[i].startISO
                                   /\ alts[i].endISO = list[i].endISO
                /\ \A i \in 1..(n - 1) :
                      DateParse(alts[i].startISO) <= DateParse(alts[i + 1].startISO)
                /\ \A i \in 1..n : DateParse(alts[i].startISO) >= c.clock
                /\ \A i \in 1..n : ~ ConflictsWithStore(alts[i], c.doctorId)

\* C10: no slot returned by listAvailableSlots, for any window, overlaps
\* (under the predicate of filterBookedSlots) a non-cancelled appointment of
\* that provider present in the store.
C10_ListedSlotsConflictFree ==
    \A p \in Procs :
        (call[p].pc = "done" /\ call[p].op = "list" /\ call[p].result.success)
            => \A i \in 1..Len(call[p].result.slots) :
                   ~ ConflictsWithStore(call[p].result.slots[i], call[p].doctorId)

\* a finished listAvailableSlots call that returned a list
ListDone(p) == call[p].op = "list" /\ call[p].pc = "done" /\ call[p].result.success

\* the start and end instants of the slots of a list
SlotSpans(slots) ==
    { << DateParse(slots[i].startISO), DateParse(slots[i].endISO) >> :
          i \in 1..Len(slots) }

\* the spans [start + j*d, start + (j+1)*d] that fit in a block
GridSpans(blockStart, blockEnd, d) ==
    IF blockEnd <= blockStart THEN { }
    ELSE { << blockStart + j * d, blockStart + (j + 1) * d >> :
               j \in 0..(((blockEnd - blockStart) \div d) - 1) }

\* the blocks (start, end) of provider doctor over the window of call c
BlocksOf(doctor, c) ==
    UNION { { << combineDateAndTime(date, doctor.weeklyAvailability[k].startTime),
                 combineDateAndTime(date, doctor.weeklyAvailability[k].endTime) >> :
                 date \in Range(expandAvailabilityToDates(
                                    doctor.weeklyAvailability[k],
                                    DateParse(c.fromDate), DateParse(c.toDate),
                                    c.computedAt)) } :
            k \in 1..Len(doctor.weeklyAvailability) }

\* span g is taken by one of the appointments fetched for the window of call c
TakenInWindow(g, c) ==
    LET fetched == getAppointmentsByDoctorAndDateRange(c.pre, c.doctorId,
                                                       c.fromDate, c.toDate)
    IN  \E i \in 1..Len(fetched) :
            /\ fetched[i].status # "cancelled"
            /\ g[1] < DateParse(fetched[i].endDateISO)
            /\ DateParse(fetched[i].startDateISO) < g[2]

\* C11: no slot returned by listAvailableSlots starts before the instant of
\* the call; a block whose end is past contributes nothing, and a block that
\* has started but not ended contributes exactly its slots that start at or
\* after the instant at which the list is computed.
C11_NoPastSlots ==
    \A p \in Procs :
        ListDone(p) =>
            LET c      == call[p]
                doctor == getDoctorById(c.preDoctors, c.doctorId)
                spans  == SlotSpans(c.result.slots)
            IN  /\ \A g \in spans : g[1] >= c.startedAt /\ g[1] >= c.computedAt
                /\ \A b \in BlocksOf(doctor, c) :
                      /\ b[2] < c.computedAt =>
                            \A g \in GridSpans(b[1], b[2], DefaultSlotMinutes) :
                                g \notin spans
                      /\ \A g \in GridSpans(b[1], b[2], DefaultSlotMinutes) :
                            (g[1] >= c.computedAt /\ ~ TakenInWindow(g, c))
                                => g \in spans
                /\ \A g \in spans :
                      \E b \in BlocksOf(doctor, c) :
                          g \in GridSpans(b[1], b[2], DefaultSlotMinutes)

\* at Monday 09:40 the list of the 09:00-12:00 Monday block, with nothing
\* booked, begins with the 10:00 slot of that Monday
C11_Witness ==
    /\ ListDone(1)
    /\ call[1].doctorId = "d3"
    /\ call[1].computedAt = At(8, 9, 40)
    /\ appointments = << >>
    /\ Len(call[1].result.slots) > 0
    /\ call[1].result.slots[1].startISO = toISOString(At(8, 10, 0))

\* C12: every slot returned by listAvailableSlots lies within the query
\* window: its start is not before fromDate and its end is not after toDate.
C12_SlotsWithinWindow ==
    \A p \in Procs :
        ListDone(p) =>
            \A g \in SlotSpans(call[p].result.slots) :
                /\ g[1] >= DateParse(call[p].fromDate)
                /\ g[2] <= DateParse(call[p].toDate)

Accumulated(c) ==
    filterBookedSlots(
        generateAllPossibleSlots(getDoctorById(c.preDoctors, c.doctorId),
                                 DateParse(c.fromDate), DateParse(c.toDate),
                                 DefaultSlotMinutes, c.computedAt),
        getAppointmentsByDoctorAndDateRange(c.pre, c.doctorId, c.fromDate, c.toDate))

Occurrences(s, x) == Cardinality({ i \in 1..Len(s) : s[i] = x })

\* C14: the list returned by listAvailableSlots holds the accumulated slots
\* sorted ascending by start instant; slots with equal start keep their
\* accumulation order (they are equal in every field, so the order among them
\* is that of the accumulation whichever way they are placed).
C14_SortedByStart ==
    \A p \in Procs :
        ListDone(p) =>
            LET slots == call[p].result.slots
                acc   == Accumulated(call[p])
            IN  /\ \A i, j \in 1..Len(slots) :
                      i < j => DateParse(slots[i].startISO) <= DateParse(slots[j].startISO)
                /\ Len(slots) = Len(acc)
                /\ \A x \in Range(acc) \cup Range(slots) :
                      Occurrences(slots, x) = Occurrences(acc, x)
                /\ \A i, j \in 1..Len(slots) :
                      DateParse(slots[i].startISO) = DateParse(slots[j].startISO)
                          => slots[i] = slots[j]

\* a list whose accumulation order was not sorted and in which two slots
\* start together
C14_Witness ==
    /\ ListDone(1)
    /\ call[1].result.slots # Accumulated(call[1])
    /\ \E i, j \in 1..Len(call[1].result.slots) :
          /\ i < j
          /\ call[1].result.slots[i].startISO = call[1].result.slots[j].startISO

\* C15: listAvailableSlots for a provider identifier that is not stored fails
\* with NotFound; it returns no list, empty or partial.
C15_UnknownProviderNotFound ==
    \A p \in Procs :
        (/\ call[p].op = "list" /\ call[p].pc = "done"
         /\ ~ DoctorStored(call[p].preDoctors, call[p].doctorId))
            => /\ ~ call[p].result.success
               /\ ErrorKind(call[p].result.error) = "NotFound"
               /\ ~ call[p].result.hasSlots
               /\ call[p].result.slots = << >>

\* a list was asked for a provider identifier that is not stored, while other
\* providers are
C15_Witness ==
    /\ call[1].op = "list" /\ call[1].pc = "done"
    /\ call[1].doctorId = "dX"
    /\ Len(doctors) > 0
    /\ call[1].result.error = ErrDoctorNotFound

\* a finished list of the provider with the single rule Monday 09:00-12:00,
\* asked before the window begins on a store without appointments, over the
\* window that begins next Monday 00:00 and is `minutes` long
ExampleListed(p, minutes) ==
    LET nextMonday == getNextMondayAt(call[p].startedAt, <<0, 0>>)
    IN  /\ ListDone(p)
        /\ call[p].doctorId = "d3"
        /\ call[p].preDoctors = ExampleDoctors
        /\ call[p].pre = << >>
        /\ call[p].computedAt <= nextMonday
        /\ call[p].fromDate = toISOString(nextMonday)
        /\ call[p].toDate = toISOString(nextMonday + minutes)

CancelDone(p) ==
    /\ call[p].op = "cancel" /\ call[p].pc = "done"
    /\ (call[p].batch = "none" \/ call[p].results # << >>)

\* the appointment the cancel of call c named, as stored when the call began
Target(c) == getAppointmentById(c.pre, c.req.appointmentId)

\* C17: cancel on an appointment whose status is completed or cancelled never
\* succeeds and never changes the stored appointment, whatever its start.
C17_CompletedNotCancellable ==
    \A p \in Procs :
        (CancelDone(p) /\ Target(call[p]).status \in { "completed", "cancelled" })
            => /\ ~ call[p].result.success
               /\ getAppointmentById(appointments, call[p].req.appointmentId)
                      = Target(call[p])

\* C18: cancel checks NotFound, then AlreadyCancelled, then InThePast, and
\* reports the first that applies: an unknown id gives NotFound, a cancelled
\* appointment gives AlreadyCancelled even when its start is past, any other
\* appointment that starts before now gives InThePast, and otherwise the
\* cancel succeeds (so a second cancel of the same future appointment fails
\* with AlreadyCancelled); a failing cancel leaves the store unchanged.
C18_CancelGuardOrder ==
    \A p \in Procs :
        CancelDone(p) =>
            LET c == call[p]
                existingAppointment == Target(c)
            IN  /\ IF existingAppointment = NoAppointment
                   THEN ErrorKind(c.result.error) = "NotFound"
                   ELSE IF existingAppointment.status = "cancelled"
                   THEN ErrorKind(c.result.error) = "AlreadyCancelled"
                   ELSE IF DateParse(existingAppointment.startDateISO) < c.computedAt
                   THEN ErrorKind(c.result.error) = "InThePast"
                   ELSE c.result.success
                /\ ErrorKind(c.result.error) # "None" => ~ c.result.success
                /\ ~ c.result.success => appointments = c.pre

\* the second cancel of an appointment that an earlier cancel of this run had
\* cancelled with a reason, and that is still in the future
C18_Witness ==
    /\ CancelDone(1)
    /\ call[1].result.error = ErrAlreadyCancelled
    /\ call[1].computedAt <= DateParse(Target(call[1]).startDateISO)
    /\ \E i \in 1..Len(Target(call[1]).notes) :
           Target(call[1]).notes[i] = "Cancellation reason:"

\* the store of call c with the named appointment cancelled and given notes
CancelledStore(c, notes) ==
    [c.pre EXCEPT ![findIndex(c.pre, c.req.appointmentId)] =
        [Target(c) EXCEPT !.status = "cancelled", !.notes = notes,
                          !.updatedAt = toISOString(c.clock)]]

\* text ends with the piece last
EndsWith(text, last) == text # << >> /\ text[Len(text)] = last

\* whole is prefix followed by a newline and a text that ends with the reason
PrefixNewlineReason(whole, prefix, reason) ==
    /\ Len(whole) >= Len(prefix) + 2
    /\ SubSeq(whole, 1, Len(prefix)) = prefix
    /\ whole[Len(prefix) + 1] = "\n"
    /\ EndsWith(whole, reason)

\* C19 as stated: a successful cancel changes only status, notes and update
\* instant of the named appointment; with a reason the new notes are the prior
\* notes followed by a newline and the reason, without one they are unchanged.
C19_CancelFrameAsStated ==
    \A p \in Procs :
        (CancelDone(p) /\ call[p].result.success) =>
            LET c == call[p]
                notes == c.result.appointment.notes
            IN  /\ appointments = CancelledStore(c, notes)
                /\ c.result.appointment
                       = getAppointmentById(appointments, c.req.appointmentId)
                /\ IF c.req.reason = "" THEN notes = Target(c).notes
                   ELSE PrefixNewlineReason(notes, Target(c).notes, c.req.reason)

\* text is whole with the white space at its two ends removed
Trimmed(text, whole) ==
    /\ \E i \in 1..(Len(whole) + 1), j \in 0..Len(whole) :
          /\ text = SubSeq(whole, i, j)
          /\ \A k \in 1..(i - 1) : whole[k] \in Whitespace
          /\ \A k \in (j + 1)..Len(whole) : whole[k] \in Whitespace
    /\ text # << >> => (text[1] \notin Whitespace /\ text[Len(text)] \notin Whitespace)

\* C19 amended: a successful cancel changes only status, notes and update
\* instant of the named appointment: status becomes cancelled, the update
\* instant becomes now, and with a reason the new notes are the prior notes
\* (the empty text when there are none), a newline, the label "Cancellation
\* reason: " and the reason, with the white space at the two ends of the whole
\* removed; without a reason the notes are unchanged. Every other field and
\* every other stored appointment is unchanged.
C19_CancelFrame ==
    \A p \in Procs :
        (CancelDone(p) /\ call[p].result.success) =>
            LET c == call[p]
                notes == c.result.appointment.notes
            IN  /\ appointments = CancelledStore(c, notes)
                /\ c.result.appointment
                       = getAppointmentById(appointments, c.req.appointmentId)
                /\ c.startedAt <= c.clock /\ c.clock <= now
                /\ IF c.req.reason = "" THEN notes = Target(c).notes
                   ELSE Trimmed(notes, Target(c).notes \o
                                << "\n", "Cancellation reason:", " ", c.req.reason >>)

\* an appointment that had notes was cancelled with a reason
C19_Witness ==
    /\ CancelDone(1) /\ call[1].result.success
    /\ call[1].req.reason = "Cancelled by owner"
    /\ Target(call[1]).notes = << "Vaccination" >>
    /\ call[1].result.appointment.notes
           = << "Vaccination", "\n", "Cancellation reason:", " ", "Cancelled by owner" >>

\* a finished cancel-by-day call
BatchDone(p) == call[p].op = "cancel" /\ call[p].batch = "day" /\ call[p].pc = "done"

\* appointment a of the provider of call c meets the closed bounds of its day
OnDay(a, c) ==
    /\ a.doctorId = c.doctorId
    /\ DateParse(a.startDateISO) <= DateParse(c.toDate)
    /\ DateParse(a.endDateISO) >= DateParse(c.fromDate)

\* the appointments call c is to cancel, in stored order
Selected(c) == SelectSeq(c.batchPre, LAMBDA a : OnDay(a, c) /\ Active(a))

\* what call c was not to cancel is stored as it was
OthersUntouched(c) ==
    /\ Len(appointments) = Len(c.batchPre)
    /\ \A i \in 1..Len(c.batchPre) :
          ~ (OnDay(c.batchPre[i], c) /\ Active(c.batchPre[i]))
              => appointments[i] = c.batchPre[i]

\* C20 as stated: cancel-by-day returns one result for each appointment of the
\* provider on that day that is not cancelled and none for the cancelled
\* ones, all of them successful, and leaves every other appointment untouched.
C20_CancelDayAsStated ==
    \A p \in Procs :
        BatchDone(p) =>
            LET c == call[p]
                selected == Selected(c)
            IN  /\ Len(c.results) = Len(selected)
                /\ \A i \in 1..Len(c.results) :
                      /\ c.results[i].success
                      /\ c.results[i].appointment.id = selected[i].id
                /\ OthersUntouched(c)

\* C20 amended: cancel-by-day returns one result for each appointment of the
\* provider on that day that is not cancelled, in stored order, and none for
\* the cancelled ones; the result of an appointment that starts at or after
\* the instant of its cancellation is successful, that of one that starts
\* before is an InThePast failure and leaves it as it was, so all are
\* successful when all start in the future; every other appointment is
\* untouched.
C20_CancelDay ==
    \A p \in Procs :
        BatchDone(p) =>
            LET c == call[p]
                selected == Selected(c)
            IN  /\ Len(c.results) = Len(selected)
                /\ \A i \in 1..Len(c.results) :
                      LET stored == getAppointmentById(appointments, selected[i].id)
                      IN  IF c.results[i].success
                          THEN /\ c.results[i].appointment.id = selected[i].id
                               /\ DateParse(selected[i].startDateISO) >= c.batchAt
                               /\ stored.status = "cancelled"
                               /\ stored = c.results[i].appointment
                          ELSE /\ ErrorKind(c.results[i].error) = "InThePast"
                               /\ DateParse(selected[i].startDateISO) < now
                               /\ stored = selected[i]
                /\ (\A i \in 1..Len(selected) : DateParse(selected[i].startDateISO) >= now)
                       => \A i \in 1..Len(c.results) : c.results[i].success
                /\ OthersUntouched(c)

\* the day with three appointments that are not cancelled and one that is:
\* three results, all successful
C20_Witness ==
    /\ BatchDone(1)
    /\ call[1].batchPre = DayStore
    /\ call[1].doctorId = "d3"
    /\ call[1].fromDate = toISOString(At(8, 0, 0))
    /\ Len(call[1].results) = 3
    /\ \A i \in 1..3 : call[1].results[i].success

\* a finished reschedule call
RescheduleDone(p) == call[p].op = "reschedule" /\ call[p].pc = "done"

\* C21: reschedule validates the new times as book does: new end <= new start
\* gives InvalidRequest, new start before now gives InThePast, a request that
\* passes both and has no exact-match candidate gives SlotUnavailable, and an
\* unknown appointment id gives NotFound.
C21_RescheduleValidation ==
    \A p \in Procs :
        RescheduleDone(p) =>
            LET c == call[p]
            IN  IF Target(c) = NoAppointment
                THEN ErrorKind(c.result.error) = "NotFound"
                ELSE IF DateParse(c.req.endDateISO) <= DateParse(c.req.startDateISO)
                THEN ErrorKind(c.result.error) = "InvalidRequest"
                ELSE IF DateParse(c.req.startDateISO) < c.startedAt
                THEN ErrorKind(c.result.error) = "InThePast"
                ELSE ~ c.result.success => ErrorKind(c.result.error) = "SlotUnavailable"

\* the store a successful reschedule leaves behind: the identified appointment
\* of the call's initial snapshot with new start, end and update instant
RescheduledStore(c) ==
    [c.pre EXCEPT ![findIndex(c.pre, c.req.appointmentId)] =
        [Target(c) EXCEPT !.startDateISO = c.req.startDateISO,
                          !.endDateISO = c.req.endDateISO,
                          !.updatedAt = toISOString(c.clock)]]

\* C22: a successful reschedule overwrites in place only the start, end and
\* update instant of the identified appointment (identifier, provider, owner,
\* subject, status, creation instant and all other appointments unchanged,
\* none added or removed); a failed reschedule leaves the store unchanged.
C22_RescheduleFrame ==
    \A p \in Procs :
        RescheduleDone(p) =>
            IF call[p].result.success
            THEN /\ appointments = RescheduledStore(call[p])
                 /\ call[p].result.appointment
                        = getAppointmentById(appointments, call[p].req.appointmentId)
            ELSE appointments = call[p].pre

\* a cancelled appointment was moved to another slot and is still cancelled
C22_Witness ==
    \E p \in Procs :
        /\ RescheduleDone(p) /\ call[p].result.success
        /\ Len(call[p].pre) = 2
        /\ Target(call[p]).status = "cancelled"
        /\ Target(call[p]).startDateISO # call[p].req.startDateISO
        /\ appointments # call[p].pre

\* C28: every stored appointment has start instant < end instant in every
\* reachable state; neither book nor reschedule stores times with end <= start.
C28_StartBeforeEnd ==
    \A i \in 1..Len(appointments) :
        DateParse(appointments[i].startDateISO) < DateParse(appointments[i].endDateISO)

\* a reschedule to times with end <= start finished after a book had stored
\* a second appointment
C28_Witness ==
    \E p \in Procs :
        /\ RescheduleDone(p)
        /\ Target(call[p]) # NoAppointment
        /\ DateParse(call[p].req.endDateISO) <= DateParse(call[p].req.startDateISO)
        /\ Len(appointments) = 2

\* the stored status of the appointment id in store, "none" when it is absent
StatusOf(store, id) == getAppointmentById(store, id).status

\* C24: cancelled is terminal, also when a reschedule and a cancel of the same
\* appointment interleave: an appointment whose stored status is cancelled is
\* cancelled after every step.
C24_CancelledIsTerminal ==
    [][\A id \in Ids(appointments) :
           StatusOf(appointments, id) = "cancelled"
               => StatusOf(appointments', id) = "cancelled"]_vars

\* C25: no operation deletes an appointment, also when calls interleave at
\* their storage reads and writes: an identifier in the stored collection is
\* in the stored collection after every step.
C25_NoDeletion ==
    [][Ids(appointments) \subseteq Ids(appointments')]_vars

\* a finished batch booking
BookBatchDone(p) == call[p].op = "book" /\ call[p].batch = "book" /\ call[p].pc = "done"

\* the j-th request of the batch of c as a single call: its request, the store
\* and the instants execute saw for it
BatchCall(c, j) ==
    [req |-> c.batchReqs[j], pre |-> c.hist[j].pre, preDoctors |-> c.preDoctors,
     startedAt |-> c.hist[j].startedAt, clock |-> c.hist[j].clock]

\* the store as left by the first j requests of the batch of c
RECURSIVE StoreAfter(_, _)
StoreAfter(c, j) ==
    IF j = 0 THEN c.batchPre
    ELSE IF c.results[j].success
    THEN Append(StoreAfter(c, j - 1), c.results[j].appointment)
    ELSE StoreAfter(c, j - 1)

\* the j-th request of the batch of c is valid: it passes the input checks, its
\* provider is stored and its times are those of a candidate of its day
ValidInBatch(c, j) ==
    /\ PassesInputChecks(BatchCall(c, j))
    /\ DoctorStored(c.preDoctors, c.batchReqs[j].doctorId)
    /\ HasExactCandidate(BatchCall(c, j))

\* C23: batch booking of k requests returns k outcomes in request order, each
\* request being checked against the store as left by the earlier ones, and
\* continues after a failure: of two equal requests the first succeeding makes
\* the second fail with SlotUnavailable, and valid requests after a failure
\* succeed.
C23_BatchBooking ==
    \A p \in Procs :
        BookBatchDone(p) =>
            LET c == call[p]
                k == Len(c.batchReqs)
            IN  /\ Len(c.results) = k
                /\ appointments = StoreAfter(c, k)
                /\ \A j \in 1..k :
                      /\ c.hist[j].pre = StoreAfter(c, j - 1)
                      /\ c.results[j].success <=> ValidInBatch(c, j)
                      /\ c.results[j].success =>
                            /\ c.results[j].appointment.doctorId = c.batchReqs[j].doctorId
                            /\ c.results[j].appointment.startDateISO = c.batchReqs[j].startDateISO
                            /\ c.results[j].appointment.endDateISO = c.batchReqs[j].endDateISO
                /\ \A i, j \in 1..k :
                      (/\ i < j
                       /\ c.batchReqs[i] = c.batchReqs[j]
                       /\ c.results[i].success
                       /\ PassesInputChecks(BatchCall(c, j)))
                          => ErrorKind(c.results[j].error) = "SlotUnavailable"

\* a batch of three: a request that fails its input checks, then the same
\* bookable slot twice; the second request succeeded, the third was refused
C23_Witness ==
    /\ BookBatchDone(1)
    /\ Len(call[1].results) = 3
    /\ ErrorKind(call[1].results[1].error) = "InvalidRequest"
    /\ call[1].batchReqs[2] = call[1].batchReqs[3]
    /\ call[1].results[2].success
    /\ ErrorKind(call[1].results[3].error) = "SlotUnavailable"
    /\ Len(appointments) = Len(call[1].batchPre) + 1

\* a finished book, reschedule or cancel call one of whose storage steps failed
FaultedDone(p) ==
    /\ call[p].pc = "done"
    /\ call[p].op \in {"book", "reschedule", "cancel"}
    /\ call[p].faulted

\* C26: when a storage read or write fails at a step of book, reschedule or
\* cancel, the operation returns a failure and the stored appointments are
\* what they were before the call.
C26_StorageFailureIsFailure ==
    \A p \in Procs :
        FaultedDone(p) => /\ ~ call[p].result.success
                          /\ appointments = call[p].pre

\* the window [fromDate, toDate] covers the day of appointment a
CoversDayOf(fromDate, toDate, a) ==
    /\ DateParse(fromDate) <= dayStartOf(DateParse(a.startDateISO))
    /\ DateParse(toDate) >= dayEndOf(DateParse(a.startDateISO))

\* slots holds a slot with the times of appointment a
ListsSlotOf(slots, a) ==
    \E i \in 1..Len(slots) :
        slots[i].startISO = a.startDateISO /\ slots[i].endISO = a.endDateISO

\* no other non-cancelled appointment of the provider overlaps a in store
FreeOfOthers(store, a) ==
    \A j \in 1..Len(store) :
        (store[j].doctorId = a.doctorId /\ Active(store[j]) /\ store[j].id # a.id)
            => ~ Overlap(store[j], a)

\* for the providers in doctorIds: a booked slot is absent from every list over
\* a window covering its day while its appointment is not cancelled; once the
\* appointment is cancelled and while the slot is in the future, it is listed
\* again and a book of it succeeds
BlockedThenFreed(doctorIds) ==
    \A p \in Procs :
        LET c == call[p]
        IN  /\ ListDone(p) =>
                  \A i \in 1..Len(c.pre) :
                      LET a == c.pre[i]
                      IN  (/\ a.doctorId = c.doctorId
                           /\ a.doctorId \in doctorIds
                           /\ CoversDayOf(c.fromDate, c.toDate, a))
                              => IF Active(a)
                                 THEN ~ ListsSlotOf(c.result.slots, a)
                                 ELSE (/\ DateParse(a.startDateISO) >= c.clock
                                       /\ FreeOfOthers(c.pre, a))
                                          => ListsSlotOf(c.result.slots, a)
            /\ BookDone(p) =>
                  \A i \in 1..Len(c.pre) :
                      LET a == c.pre[i]
                      IN  (/\ a.doctorId = c.req.doctorId
                           /\ a.doctorId \in doctorIds
                           /\ a.startDateISO = c.req.startDateISO
                           /\ a.endDateISO = c.req.endDateISO
                           /\ ~ Active(a)
                           /\ DateParse(a.startDateISO) >= c.clock
                           /\ FreeOfOthers(c.pre, a))
                              => c.result.success

\* C27: after a successful book of slot S for provider P, S is absent from
\* listAvailableSlots(P, any window covering S's day) while the appointment is
\* not cancelled; once it is cancelled, and while S is in the future, S is
\* listed again and can be booked again.
C27_BookedSlotBlockedUntilCancelled == BlockedThenFreed({ "d1", "d2" })

\* a finished application of filterBookedSlots
FilterDone(p) == call[p].op = "filter" /\ call[p].pc = "done"

\* the filter kept slot
Kept(c, slot) == \E i \in 1..Len(c.result.slots) : c.result.slots[i] = slot

\* slot ends exactly when appointment a starts / starts exactly when a ends
TouchesFromLeft(slot, a) == DateParse(slot.endISO) = DateParse(a.startDateISO)

TouchesFromRight(slot, a) == DateParse(slot.startISO) = DateParse(a.endDateISO)

\* the claim of C29 as the specification words it: a slot ending exactly when
\* a non-cancelled appointment starts and a slot starting exactly when it ends
\* are classified differently (one conflicts, the other does not).
C29_AsymmetricAsStated ==
    \A p \in Procs :
        FilterDone(p) =>
            LET c == call[p]
                a == c.pre[1]
            IN  (/\ Len(c.allSlots) = 2
                 /\ Active(a)
                 /\ TouchesFromLeft(c.allSlots[1], a)
                 /\ TouchesFromRight(c.allSlots[2], a))
                    => Kept(c, c.allSlots[1]) # Kept(c, c.allSlots[2])

\* C29 (amended): for a slot and an appointment that both have start < end the
\* conflict predicate is symmetric at the boundaries: a slot that ends exactly
\* when the appointment starts and a slot that starts exactly when it ends
\* are both classified as no conflict, and both are kept.
C29_TouchingSlotsKept ==
    \A p \in Procs :
        FilterDone(p) =>
            LET c == call[p]
                a == c.pre[1]
            IN  \A i \in 1..Len(c.allSlots) :
                    (TouchesFromLeft(c.allSlots[i], a) \/ TouchesFromRight(c.allSlots[i], a))
                        => Kept(c, c.allSlots[i])

\* a slot touching a non-cancelled appointment from the left and one touching
\* it from the right went through the filter together
C29_Witness ==
    /\ FilterDone(1)
    /\ Active(call[1].pre[1])
    /\ Len(call[1].allSlots) = 2
    /\ TouchesFromLeft(call[1].allSlots[1], call[1].pre[1])
    /\ TouchesFromRight(call[1].allSlots[2], call[1].pre[1])
    /\ Len(call[1].result.slots) = 2

\* C30: for a slot [s1,e1) with s1 < e1 and an appointment [s2,e2) with
\* s2 < e2, the three-clause conflict predicate of filterBookedSlots is true
\* exactly when s1 < e2 and s2 < e1; a slot is removed exactly when it overlaps
\* the non-cancelled appointment in that sense.
C30_HalfOpenOverlap ==
    /\ \A iv \in ProperIntervals, jv \in ProperIntervals :
          HasTimeOverlap(iv[1], iv[2], jv[1], jv[2]) <=> (iv[1] < jv[2] /\ jv[1] < iv[2])
    /\ \A p \in Procs :
          FilterDone(p) =>
              LET c == call[p]
                  a == c.pre[1]
              IN  \A i \in 1..Len(c.allSlots) :
                      Kept(c, c.allSlots[i]) <=>
                          ~ (/\ Active(a)
                             /\ DateParse(c.allSlots[i].startISO) < DateParse(a.endDateISO)
                             /\ DateParse(a.startDateISO) < DateParse(c.allSlots[i].endISO))

\* of two slots filtered together, the one strictly inside the non-cancelled
\* appointment was removed and the one touching its end was kept
C30_Witness ==
    /\ FilterDone(1)
    /\ Active(call[1].pre[1])
    /\ Len(call[1].allSlots) = 2
    /\ DateParse(call[1].allSlots[1].startISO) > DateParse(call[1].pre[1].startDateISO)
    /\ DateParse(call[1].allSlots[1].endISO) < DateParse(call[1].pre[1].endDateISO)
    /\ TouchesFromRight(call[1].allSlots[2], call[1].pre[1])
    /\ call[1].result.slots = << call[1].allSlots[2] >>

\* a finished run of generateSlotsForBlock
SliceDone(p) == call[p].op = "slice" /\ call[p].pc = "done"

\* floor((end - start) / d) for a block with end > start, 0 otherwise
WholeSlots(startDatetime, endDatetime, d) ==
    IF endDatetime > startDatetime THEN (endDatetime - startDatetime) \div d ELSE 0

\* C31: for every block [start, end) and duration d > 0 generateSlotsForBlock
\* returns exactly floor((end - start)/d) slots in ascending order, the i-th
\* being [start + i*d, start + (i+1)*d): every slot has length d, slots are
\* contiguous, none ends after the block end, a shorter remainder is dropped.
C31_SlicerGrid ==
    \A p \in Procs :
        SliceDone(p) =>
            LET c == call[p]
                s == c.args[1]
                e == c.args[2]
                d == c.args[3]
            IN  /\ c.out = [i \in 1..WholeSlots(s, e, d) |->
                               [start |-> s + (i - 1) * d, end |-> s + i * d]]
                /\ c.out = generateSlotsForBlock(s, e, d)
                /\ \A i \in 1..Len(c.out) : c.out[i].end <= e

\* a block of five minutes was sliced into two slots of two minutes, the last
\* minute being dropped
C31_Witness ==
    /\ SliceDone(1)
    /\ call[1].args = << At(8, 9, 0), At(8, 9, 5), 2 >>
    /\ Len(call[1].out) = 2
    /\ call[1].out[2].end = At(8, 9, 4)

\* C32: generateSlotsForBlock terminates for every block and every duration
\* d > 0, and returns the empty sequence whenever the block end is at or
\* before the block start.
C32_SlicerTerminates ==
    /\ \A p \in Procs : (call[p].pc = "slicing") ~> (call[p].pc = "done")
    /\ [](\A p \in Procs :
             (SliceDone(p) /\ call[p].args[2] <= call[p].args[1]) => call[p].out = << >>)

\* a block whose end is before its start was sliced into nothing
C32_Witness ==
    /\ SliceDone(1)
    /\ call[1].args[2] < call[1].args[1]
    /\ call[1].out = << >>

\* a finished application of expandAvailabilityToDates
ExpandDone(p) == call[p].op = "expand" /\ call[p].pc = "done"

\* the instants fromDate + k days, k >= 0, that are <= toDate and fall on weekday
DaysOnWeekday(weekday, fromDate, toDate) ==
    IF fromDate > toDate THEN {}
    ELSE { t \in { fromDate + k * MinutesPerDay :
                       k \in 0..((toDate - fromDate) \div MinutesPerDay) } :
               getDay(t) = weekday }

\* dates is ascending and its members are exactly those of set
AscendingListOf(dates, set) ==
    /\ Range(dates) = set
    /\ \A i \in 1..(Len(dates) - 1) : dates[i] < dates[i + 1]

\* consecutive members of dates are n days apart
DaysApart(dates, n) ==
    \A i \in 1..(Len(dates) - 1) : dates[i + 1] - dates[i] = n * MinutesPerDay

\* C33: for a rule with no recurrence descriptor and any window [from, to],
\* expandAvailabilityToDates emits, in ascending order, exactly the dates
\* from + k days (k >= 0) that are <= to and fall on rule.weekday; consecutive
\* dates are 7 days apart; nothing is emitted when from > to or when no day of
\* the window has that weekday.
C33_PlainWeeklyExpansion ==
    \A p \in Procs :
        (ExpandDone(p) /\ call[p].args[1].rrule = NoRRule) =>
            LET c == call[p]
            IN  /\ AscendingListOf(c.out, DaysOnWeekday(c.args[1].weekday, c.args[2], c.args[3]))
                /\ DaysApart(c.out, DaysPerWeek)

\* a Monday rule without descriptor over day 0 .. day 8 gave days 1 and 8,
\* the last one being the end of the window itself
C33_Witness ==
    /\ ExpandDone(1)
    /\ call[1].args[1].rrule = NoRRule
    /\ call[1].args[3] = At(8, 0, 0)
    /\ call[1].out = << At(1, 0, 0), At(8, 0, 0) >>

\* the descriptor of rule is a bi-weekly one
BiWeekly(rule) == rule.rrule.kind = "weekly" /\ rule.rrule.interval = 2

\* C34: for every rule whose descriptor has interval = 2 and every window,
\* consecutive emitted dates are exactly 14 days apart, every emitted date
\* falls on the descriptor's weekday and lies within the window, both
\* endpoints included.
C34_BiWeeklySpacing ==
    \A p \in Procs :
        (ExpandDone(p) /\ BiWeekly(call[p].args[1])) =>
            LET c == call[p]
            IN  /\ DaysApart(c.out, 2 * DaysPerWeek)
                /\ \A i \in 1..Len(c.out) :
                       /\ getDay(c.out[i]) = ByDayToWeekday(c.args[1].rrule.byday)
                       /\ c.args[2] <= c.out[i]
                       /\ c.out[i] <= c.args[3]

\* a bi-weekly Thursday rule gave at least two dates
C34_Witness ==
    /\ ExpandDone(1)
    /\ BiWeekly(call[1].args[1])
    /\ call[1].args[1].weekday = 4
    /\ Len(call[1].out) >= 2

\* the stored providers with every recurrence descriptor removed
WithoutDescriptors(docs) ==
    [i \in 1..Len(docs) |->
        [docs[i] EXCEPT !.weeklyAvailability =
            [j \in 1..Len(docs[i].weeklyAvailability) |->
                [docs[i].weeklyAvailability[j] EXCEPT !.rrule = NoRRule]]]]

\* C35: when a rule's descriptor cannot be parsed, expandAvailabilityToDates
\* returns exactly the dates of the same rule with the descriptor removed
\* (plain weekly expansion on rule.weekday), and listAvailableSlots and book
\* answer as they do for that rule without descriptor.
C35_UnparsableDescriptorFallsBack ==
    \A p \in Procs :
        LET c == call[p]
        IN  /\ (ExpandDone(p) /\ c.args[1].rrule = BadRRule) =>
                  /\ AscendingListOf(c.out,
                                     DaysOnWeekday(c.args[1].weekday, c.args[2], c.args[3]))
                  /\ DaysApart(c.out, DaysPerWeek)
            /\ ListDone(p) =>
                  c.result.slots =
                      listAvailableSlots(WithoutDescriptors(c.preDoctors), c.pre, c.doctorId,
                                         c.fromDate, c.toDate, DefaultSlotMinutes, c.clock)
            /\ BookDone(p) =>
                  (c.result.success <=>
                      (/\ PassesInputChecks(c)
                       /\ HasExactCandidate(
                              [c EXCEPT !.preDoctors = WithoutDescriptors(c.preDoctors)])))

\* a slot of the provider whose descriptor does not parse was booked
C35_Witness ==
    /\ BookDone(1)
    /\ call[1].result.success
    /\ call[1].req.doctorId = "d5"
    /\ doctors[1].weeklyAvailability[1].rrule = BadRRule

\* calendar day Day(d) .. Day(d + 1) lies within the window of call c and after
\* the instant of the call
DayInWindow(c, d) ==
    /\ c.args[2] <= Day(d)
    /\ Day(d + 1) <= c.args[3]
    /\ c.clock < Day(d)

\* the expansion of call c has a date on calendar day d
EmitsOn(c, d) == \E i \in 1..Len(c.out) : c.out[i] \div MinutesPerDay = d

\* C40: the phase of a bi-weekly rule is fixed by the rule alone: for any two
\* windows and any two current instants, two expansions of the rule agree on
\* every calendar date that lies in both windows.
C40_PhaseFixedByRule ==
    \A p, q \in Procs :
        (/\ ExpandDone(p) /\ ExpandDone(q)
         /\ call[p].args[1] = call[q].args[1]
         /\ BiWeekly(call[p].args[1]))
            => \A d \in 0..(8 * MaxWindowSteps) :
                   (DayInWindow(call[p], d) /\ DayInWindow(call[q], d))
                       => (EmitsOn(call[p], d) <=> EmitsOn(call[q], d))

\* the descriptor of rule, when it has one, is FREQ=WEEKLY with interval 1 or 2
\* and the weekday code of rule.weekday
DescriptorAgrees(rule) ==
    rule.rrule # NoRRule =>
        /\ rule.rrule.kind = "weekly"
        /\ rule.rrule.interval \in { 1, 2 }
        /\ rule.weekday \in 0..6
        /\ rule.rrule.byday = weekdays[rule.weekday + 1]

\* C36: in every state reachable from the seeded data by schedule saves, every
\* stored rule that carries a descriptor has one of the form
\* FREQ=WEEKLY;INTERVAL=<1|2>;BYDAY=<code of rule.weekday>, so every date
\* expanded for a stored rule falls on rule.weekday.
C36_DescriptorMatchesWeekday ==
    /\ \A i \in 1..Len(doctors) : \A j \in 1..Len(doctors[i].weeklyAvailability) :
          DescriptorAgrees(doctors[i].weeklyAvailability[j])
    /\ \A p \in Procs :
          ExpandDone(p) =>
              \A k \in 1..Len(call[p].out) :
                  getDay(call[p].out[k]) = call[p].args[1].weekday

\* after a save that stored a bi-weekly Saturday rule, that rule was expanded
\* to at least one date
C36_Witness ==
    /\ ExpandDone(1)
    /\ call[1].args[1].weekday = 6
    /\ BiWeekly(call[1].args[1])
    /\ call[1].out # << >>
    /\ \E j \in 1..Len(doctors[2].weeklyAvailability) :
          doctors[2].weeklyAvailability[j] = call[1].args[1]


\* the appointment lies on the 30-minute grid of one of its provider's blocks
OnDefaultGrid(a) ==
    LET doctor == getDoctorById(doctors, a.doctorId)
        start == DateParse(a.startDateISO)
    IN  \E k \in 1..Len(doctor.weeklyAvailability) :
            LET availability == doctor.weeklyAvailability[k]
                blockStart == combineDateAndTime(start, availability.startTime)
            IN  /\ getDay(start) = availability.weekday
                /\ blockStart <= start
                /\ (start - blockStart) % DefaultSlotMinutes = 0
                /\ DateParse(a.endDateISO)
                       <= combineDateAndTime(start, availability.endTime)

RequestMinutes(c) == DateParse(c.req.endDateISO) - DateParse(c.req.startDateISO)

\* C37: the commit-time re-check of book and reschedule uses the default
\* 30-minute duration: every stored appointment lasts exactly 30 minutes and
\* starts a whole number of 30-minute steps after the start of one of its
\* provider's availability blocks, and a book or reschedule of a candidate
\* listed with another duration does not succeed.
C37_DefaultDurationOnly ==
    /\ \A i \in 1..Len(appointments) :
          /\ DateParse(appointments[i].endDateISO)
                 - DateParse(appointments[i].startDateISO) = DefaultSlotMinutes
          /\ OnDefaultGrid(appointments[i])
    /\ \A p \in Procs :
          ((BookDone(p) \/ RescheduleDone(p)) /\ RequestMinutes(call[p]) # DefaultSlotMinutes)
              => ~ call[p].result.success

\* a 15-minute candidate was refused and a 30-minute candidate of the second
\* block of Dr. Johnson was booked
C37_Witness ==
    /\ \E p \in Procs :
          /\ BookDone(p) \/ RescheduleDone(p)
          /\ RequestMinutes(call[p]) = 15
          /\ ErrorKind(call[p].result.error) = "SlotUnavailable"
    /\ \E i \in 1..Len(appointments) :
          /\ appointments[i].id # SeedAppointment.id
          /\ DateParse(appointments[i].startDateISO) = At(8, 9, 15)

\* the appointments of provider doctorId in a store
OfDoctor(store, doctorId) == SelectSeq(store, LAMBDA a : a.doctorId = doctorId)

\* what listAvailableSlots returns for provider doctorId on a store, for the
\* Monday both providers work on, at the current instant
ListedFor(docs, store, doctorId) ==
    listAvailableSlots(docs, store, doctorId, ProviderWindow[1], ProviderWindow[2],
                       DefaultSlotMinutes, now)

\* C38: providers do not interfere: a step that changes only appointments of
\* other providers leaves the result of listAvailableSlots for a provider
\* (same arguments, same instant) as it was, and the result for a provider is
\* the one computed from its own appointments alone, so an appointment of one
\* provider never blocks a slot of another.
C38_ProvidersDoNotInterfere ==
    /\ [](\A b \in StoredDoctorIds :
             /\ ListedFor(doctors, appointments, b)
                    = ListedFor(doctors, OfDoctor(appointments, b), b)
             /\ \A p \in Procs :
                   (ListDone(p) /\ call[p].doctorId = b)
                       => call[p].result.slots
                              = listAvailableSlots(call[p].preDoctors,
                                                   OfDoctor(call[p].pre, b), b,
                                                   call[p].fromDate, call[p].toDate,
                                                   DefaultSlotMinutes, call[p].computedAt))
    /\ [][\A b \in StoredDoctorIds :
             OfDoctor(appointments', b) = OfDoctor(appointments, b)
                 => ListedFor(doctors', appointments', b)
                        = ListedFor(doctors, appointments, b)]_vars

\* an appointment of the first provider stands at Monday 09:00-09:30, booked
\* by a call, and the slot at the same time was listed for the second provider
C38_Witness ==
    /\ \E i \in 1..Len(appointments) :
          /\ appointments[i].doctorId = "d3"
          /\ Active(appointments[i])
          /\ appointments[i].id # ExampleAppointment.id
          /\ DateParse(appointments[i].startDateISO) = At(8, 9, 0)
    /\ \E p \in Procs :
          /\ ListDone(p) /\ call[p].doctorId = "d4"
          /\ \E k \in 1..Len(call[p].result.slots) :
                DateParse(call[p].result.slots[k].startISO) = At(8, 9, 0)

\* the new times of reschedule call c overlap the current interval of the
\* appointment it moves
OverlapsOwnInterval(c) ==
    /\ DateParse(c.req.startDateISO) < DateParse(Target(c).endDateISO)
    /\ DateParse(c.req.endDateISO) > DateParse(Target(c).startDateISO)

\* C39: reschedule does not exempt the appointment being moved from the
\* conflict check and has no status guard: for a non-cancelled appointment, a
\* reschedule to times that overlap its own current interval (its current
\* start and end included) fails with SlotUnavailable and leaves the store
\* unchanged, and a cancelled appointment that is rescheduled stays cancelled.
C39_OwnSlotNotExempt ==
    \A p \in Procs :
        (RescheduleDone(p) /\ Target(call[p]) # NoAppointment) =>
            LET c == call[p]
            IN  /\ (Active(Target(c)) /\ OverlapsOwnInterval(c))
                       => /\ ~ c.result.success
                          /\ ErrorKind(c.result.error) = "SlotUnavailable"
                          /\ appointments = c.pre
                /\ (c.result.success /\ ~ Active(Target(c)))
                       => StatusOf(appointments, c.req.appointmentId) = "cancelled"

\* after an earlier call, an active appointment was refused times that overlap
\* its own interval without being equal to it
C39_Witness ==
    \E p \in Procs :
        /\ RescheduleDone(p)
        /\ Active(Target(call[p]))
        /\ OverlapsOwnInterval(call[p])
        /\ call[p].req.startDateISO # Target(call[p]).startDateISO
        /\ ErrorKind(call[p].result.error) = "SlotUnavailable"
        /\ calls > 1
=============================================================================
